---- MODULE Spec2Model ----
(***************************************************************************)
(* Voice-controlled measurement sessions: the session lifecycle manager    *)
(* (src/src/measurement/session_manager.py), its serialisation contract    *)
(* (src/src/models/measurement_data.py) and the command router             *)
(* (src/src/voice_handler/command_handler.py).                             *)
(*                                                                         *)
(* Python values are modelled as records so that an Optional field can be  *)
(* compared with None: a str in an Optional position is [str |-> chars],   *)
(* a datetime is [second, microsecond], a Path is [path |-> chars], a      *)
(* float is [float |-> tenths].  A dict that is shared by reference is     *)
(* held once, in the variable of its owner, and referred to by a [ref]     *)
(* record; every other object is reached through exactly one field.        *)
(***************************************************************************)
EXTENDS Integers, Sequences, FiniteSets, TLC

\* ------------------------------------------------------------------ bounds
MaxSessions == 2   \* calls of uuid.uuid4 in one run
MaxDataSessions == 1   \* the same, in the runs that vary a session's content
MaxPoints == 2     \* data points appended to one session
MaxTime == 1       \* readings the wall clock can advance to
MaxNotes == 2      \* add_notes calls on one session
MaxParts == 5      \* keywords, blanks and names a text given to parse is made of
MaxWords == 3      \* the same, of a text given to process_command

\* ------------------------------------------------------------- input values
OperatorNames == {"yamada", "sato"}
VehicleIds == {"V1"}
TestIds == {"T1", "T2"}
ConditionNames == {"temp"}
ConditionValues == {"20", "30"}
\* a str that is a dict key is the sequence of its characters; a name whose
\* characters play no part is written as one symbol
ItemNames == {<<"speed">>, <<"rpm">>}
ValueTexts == {<<"1", ".", "5">>, <<"1", ".", "2", ".", "3">>, <<".">>}
NoteTexts == {<<"a">>}
PathTexts == {<<"r", ".", "w", "a", "v">>, <<>>}

\* ------------------------------------------------------------ Python values
None == [type |-> "NoneType"]
Str(chars) == [str |-> chars]
EmptyDict == [k \in {} |-> None]
NoExc == "none"

\* a bool returned
Bool(b) == [bool |-> b]

\* datetime: the clock reading n is second n \div 2, microsecond n % 2
datetime(n) == [second |-> n \div 2, microsecond |-> n % 2]

\* datetime.isoformat: the fraction is written only when microsecond # 0
isoformat(d) ==
    IF d.microsecond = 0
    THEN Str(<<"T", d.second>>)
    ELSE Str(<<"T", d.second, ".", d.microsecond>>)

\* a parser of whole seconds only
fromisoformat_seconds(s) == [second |-> s.str[2], microsecond |-> 0]

\* datetime.fromisoformat: the fraction is optional
fromisoformat(s) ==
    [second |-> s.str[2],
     microsecond |-> IF Len(s.str) = 4 THEN s.str[4] ELSE 0]

\* pathlib.Path(text): the empty path is the current directory "."
Path(chars) == [path |-> IF chars = <<>> THEN <<".">> ELSE chars]

\* str(path)
StrOfPath(p) == Str(p.path)

\* truth value of an Optional[str] / str
Truthy(v) == v # None /\ v.str # <<>>


\* float(text) for a text of digits and dots ([\d.]+): a literal has at most
\* one dot and at least one digit; anything else raises ValueError
Dots(chars) == Cardinality({i \in 1..Len(chars) : chars[i] = "."})

IsFloatLiteral(chars) == Dots(chars) <= 1 /\ Len(chars) - Dots(chars) >= 1

DigitValue(c) == CHOOSE n \in 0..9 : ToString(n) = c

\* the value in tenths (the inputs carry at most one integer digit and one
\* fractional digit)
float(chars) ==
    LET dot == IF Dots(chars) = 0 THEN Len(chars) + 1
               ELSE CHOOSE i \in 1..Len(chars) : chars[i] = "."
        int == IF dot > 1 THEN DigitValue(chars[dot - 1]) ELSE 0
        frac == IF dot < Len(chars) THEN DigitValue(chars[dot + 1]) ELSE 0
    IN [float |-> 10 * int + frac]

\* repr(float), the text json.dump writes for a float
float_repr(x) == <<ToString(x.float \div 10), ".", ToString(x.float % 10)>>

\* ------------------------------------------------------------------- state
VARIABLES
    current_session,       \* SessionManager.current_session
    data_points,           \* SessionManager.data_points
    metadata,              \* SessionManager.metadata
    files,                 \* the documents under sessions_dir, by session id
    uuid_count,            \* uuid.uuid4 calls made so far
    clock,                 \* the reading datetime.now() returns
    temp_vehicle_info,     \* VoiceCommandHandler.temp_vehicle_info
    temp_test_info,        \* VoiceCommandHandler.temp_test_info
    temp_test_conditions,  \* VoiceCommandHandler.temp_test_conditions (one dict)
    created_ids,           \* history: the ids of the sessions start_session made
    conditions_dispatched, \* history: the <<name, value>> of every set_condition
                           \* dispatched before the first test/register
    last,                  \* history: the last call and how it ended
    threads,               \* two callers of one SessionManager: where each is
                           \* in end_session and in add_data_point
    controller,            \* the MeasurementController, its directories and
                           \* its last call
    processor              \* the CommandProcessor and its last call

vars == <<current_session, data_points, metadata, files, uuid_count, clock,
          temp_vehicle_info, temp_test_info, temp_test_conditions,
          created_ids, conditions_dispatched, last, threads, controller,
          processor>>

manager_vars == <<current_session, data_points, metadata, files, uuid_count>>

staging_vars == <<temp_vehicle_info, temp_test_info, temp_test_conditions>>

\* the objects the VoiceCommandHandler and its one caller do not touch
aside_vars == <<threads, controller, processor>>

\* the SessionManager object as one value
Self ==
    [current_session |-> current_session,
     data_points |-> data_points,
     metadata |-> metadata,
     files |-> files,
     uuid_count |-> uuid_count]

\* ------------------------------------------------------------- data model
VehicleInfo(vehicle_id, vehicle_name, vehicle_type) ==
    [vehicle_id |-> vehicle_id,
     vehicle_name |-> vehicle_name,
     vehicle_type |-> vehicle_type,
     description |-> None]

TestInfo(test_id, test_name, test_type, conditions) ==
    [test_id |-> test_id,
     test_name |-> test_name,
     test_type |-> test_type,
     conditions |-> conditions,
     description |-> None]

MeasurementSession(session_id, start_time, operator_name, vehicle_info, test_info) ==
    [session_id |-> session_id,
     start_time |-> start_time,
     end_time |-> None,
     operator_name |-> operator_name,
     vehicle_info |-> vehicle_info,
     test_info |-> test_info,
     recording_path |-> None,
     notes |-> None]

MeasurementData(session, points, meta) ==
    [session |-> session, data_points |-> points, metadata |-> meta]

\* a conditions field is [ref |-> owner] when the dict is the router's
\* temp_test_conditions object, [val |-> dict] when the object owns its dict
RouterDict == [ref |-> "temp_test_conditions"]

OwnDict(d) == [val |-> d]

\* the dict a conditions field denotes when the router's dict holds ttc
DictOf(conditions, ttc) ==
    IF "ref" \in DOMAIN conditions THEN ttc ELSE conditions.val

\* dict[key] = value
DictSet(d, key, value) ==
    [k \in DOMAIN d \cup {key} |-> IF k = key THEN value ELSE d[k]]


\* ----------------------------------------------------------- serialisation
\* MeasurementData.to_dict: the times as ISO text, the path as text, the
\* conditions dict as it is when the call is made
to_dict(data) ==
    [session |->
        [session_id |-> data.session.session_id,
         start_time |-> isoformat(data.session.start_time),
         end_time |-> IF data.session.end_time # None
                      THEN isoformat(data.session.end_time) ELSE None,
         operator_name |-> data.session.operator_name,
         vehicle_info |->
            [vehicle_id |-> data.session.vehicle_info.vehicle_id,
             vehicle_name |-> data.session.vehicle_info.vehicle_name,
             vehicle_type |-> data.session.vehicle_info.vehicle_type,
             description |-> data.session.vehicle_info.description],
         test_info |->
            [test_id |-> data.session.test_info.test_id,
             test_name |-> data.session.test_info.test_name,
             test_type |-> data.session.test_info.test_type,
             conditions |-> DictOf(data.session.test_info.conditions,
                                   temp_test_conditions),
             description |-> data.session.test_info.description],
         recording_path |-> IF data.session.recording_path # None
                            THEN StrOfPath(data.session.recording_path)
                            ELSE None,
         notes |-> data.session.notes],
     data_points |-> data.data_points,
     metadata |-> data.metadata]

\* dict.get(key): None when the key is absent
get(d, key) == IF key \in DOMAIN d THEN d[key] ELSE None

\* the text datetime.fromisoformat takes
IsIsoText(s) ==
    /\ "str" \in DOMAIN s
    /\ Len(s.str) \in {2, 4}
    /\ s.str[1] = "T"

\* the nested dicts and the keys from_dict reads with [] (the others it
\* reads with .get)
RequiredKeys ==
    [top |-> {"session", "data_points", "metadata"},
     session |-> {"session_id", "start_time", "operator_name",
                  "vehicle_info", "test_info"},
     vehicle_info |-> {"vehicle_id", "vehicle_name", "vehicle_type"},
     test_info |-> {"test_id", "test_name", "test_type", "conditions"}]

\* MeasurementData.from_dict: the exception it raises on data, NoExc when
\* it returns
from_dict_error(data) ==
    IF ~(RequiredKeys.top \subseteq DOMAIN data) THEN "KeyError"
    ELSE IF ~(RequiredKeys.session \subseteq DOMAIN data.session)
    THEN "KeyError"
    ELSE IF ~(RequiredKeys.vehicle_info
                  \subseteq DOMAIN data.session.vehicle_info)
    THEN "KeyError"
    ELSE IF ~(RequiredKeys.test_info \subseteq DOMAIN data.session.test_info)
    THEN "KeyError"
    ELSE IF ~IsIsoText(data.session.start_time) THEN "ValueError"
    ELSE IF Truthy(get(data.session, "end_time"))
    THEN IF IsIsoText(data.session.end_time) THEN NoExc ELSE "ValueError"
    ELSE NoExc

\* MeasurementData.from_dict: new objects, the loaded bundle owns its dicts
from_dict(data) ==
    LET session_data == data.session
        vehicle_info ==
            [vehicle_id |-> session_data.vehicle_info.vehicle_id,
             vehicle_name |-> session_data.vehicle_info.vehicle_name,
             vehicle_type |-> session_data.vehicle_info.vehicle_type,
             description |-> get(session_data.vehicle_info, "description")]
        test_info ==
            [test_id |-> session_data.test_info.test_id,
             test_name |-> session_data.test_info.test_name,
             test_type |-> session_data.test_info.test_type,
             conditions |-> OwnDict(session_data.test_info.conditions),
             description |-> get(session_data.test_info, "description")]
        session ==
            [session_id |-> session_data.session_id,
             start_time |-> fromisoformat(session_data.start_time),
             end_time |-> IF Truthy(get(session_data, "end_time"))
                          THEN fromisoformat(session_data.end_time) ELSE None,
             operator_name |-> session_data.operator_name,
             vehicle_info |-> vehicle_info,
             test_info |-> test_info,
             recording_path |-> IF Truthy(get(session_data, "recording_path"))
                                THEN Path(session_data.recording_path.str)
                                ELSE None,
             notes |-> get(session_data, "notes")]
    IN MeasurementData(session, data.data_points, data.metadata)

\* json.dump / json.load of one data point: a float is written as its repr
\* and read back with float(); text stays text
json_dump_point(point) ==
    [k \in DOMAIN point |->
        IF "float" \in DOMAIN point[k]
        THEN [number |-> float_repr(point[k])] ELSE point[k]]

json_load_point(point) ==
    [k \in DOMAIN point |->
        IF "number" \in DOMAIN point[k]
        THEN float(point[k].number) ELSE point[k]]

\* json.dump(data.to_dict(), f): the document text, as the JSON value it holds
json_dump(d) ==
    [json |-> [d EXCEPT !.data_points =
                  [i \in 1..Len(d.data_points) |-> json_dump_point(d.data_points[i])]]]

\* json.load(f)
json_load(doc) ==
    [doc.json EXCEPT !.data_points =
        [i \in 1..Len(doc.json.data_points) |-> json_load_point(doc.json.data_points[i])]]

\* what a write that fails after open(file_path, 'w') leaves: no JSON value
Truncated == [truncated |-> TRUE]

IsJson(doc) == "json" \in DOMAIN doc

\* the outcomes of the write in _save_session_data
WriteOutcomes == {"ok", "open_fails", "dump_fails"}


\* ---------------------------------------------------------- SessionManager
\* Each method is a function of the manager object and the call's inputs to
\* [self: the manager after the call, raised: the exception or NoExc,
\*  ret: the value returned].

Result(self, raised, ret) == [self |-> self, raised |-> raised, ret |-> ret]

\* _save_session_data logging the failure without re-raising it
_save_session_data_swallow(self, data, io) ==
    LET session_id == data.session.session_id
    IN CASE io = "ok" ->
              Result([self EXCEPT !.files =
                         DictSet(@, session_id, json_dump(to_dict(data)))],
                     NoExc, None)
         [] io = "open_fails" ->
              Result(self, NoExc, None)
         [] io = "dump_fails" ->
              Result([self EXCEPT !.files = DictSet(@, session_id, Truncated)],
                     NoExc, None)

\* _save_session_data: open(file_path, 'w'), json.dump, re-raise on failure
_save_session_data(self, data, io) ==
    LET session_id == data.session.session_id
    IN CASE io = "ok" ->
              Result([self EXCEPT !.files =
                         DictSet(@, session_id, json_dump(to_dict(data)))],
                     NoExc, None)
         [] io = "open_fails" ->
              Result(self, "OSError", None)
         [] io = "dump_fails" ->
              Result([self EXCEPT !.files = DictSet(@, session_id, Truncated)],
                     "OSError", None)

\* end_session, lines 96-101: the end_time is stamped and the bundle built
\* from the manager's fields
end_session_bundle(self, now) ==
    MeasurementData([self.current_session EXCEPT !.end_time = now],
                    self.data_points, self.metadata)

\* end_session, lines 104-114, once _save_session_data has ended as saved:
\* its exception leaves the method; otherwise the session is cleared and
\* the bundle returned
end_session_clear(saved, measurement_data) ==
    IF saved.raised # NoExc
    THEN Result(saved.self, saved.raised, None)
    ELSE Result([saved.self EXCEPT !.current_session = None,
                                   !.data_points = <<>>,
                                   !.metadata = EmptyDict],
                NoExc, measurement_data)

\* end_session clearing the session whatever the write did
end_session_clear_always(self, now, io) ==
    IF self.current_session = None
    THEN Result(self, NoExc, None)
    ELSE LET saved == _save_session_data(
                          [self EXCEPT !.current_session.end_time = now],
                          end_session_bundle(self, now), io)
         IN Result([saved.self EXCEPT !.current_session = None,
                                      !.data_points = <<>>,
                                      !.metadata = EmptyDict],
                   saved.raised,
                   IF saved.raised = NoExc
                   THEN end_session_bundle(self, now) ELSE None)

\* end_session raising when no session is active
end_session_raises_idle(self, now, io) ==
    IF self.current_session = None
    THEN Result(self, "RuntimeError", None)
    ELSE end_session_clear(
             _save_session_data([self EXCEPT !.current_session.end_time = now],
                                end_session_bundle(self, now), io),
             end_session_bundle(self, now))

\* end_session
end_session(self, now, io) ==
    IF self.current_session = None
    THEN Result(self, NoExc, None)
    ELSE end_session_clear(
             _save_session_data([self EXCEPT !.current_session.end_time = now],
                                end_session_bundle(self, now), io),
             end_session_bundle(self, now))

\* an id generator that repeats itself
uuid4_repeat(self) == 1

\* uuid.uuid4(): a value no earlier call returned
uuid4(self) == self.uuid_count + 1

\* start_session making the new session whatever the forced end did
start_session_new_regardless(ended, operator_name, vehicle_info, test_info, now) ==
    LET session == MeasurementSession(uuid4(ended.self), now,
                                      operator_name, vehicle_info,
                                      test_info)
    IN Result([ended.self EXCEPT
                   !.uuid_count = @ + 1,
                   !.current_session = session,
                   !.data_points = <<>>,
                   !.metadata = [created_at |-> isoformat(now),
                                 session_type |-> "measurement"]],
              NoExc, session)

\* start_session, lines 66-83, once the forced end has ended as ended: its
\* exception leaves the method; otherwise the new session is made
start_session_new(ended, operator_name, vehicle_info, test_info, now) ==
    IF ended.raised # NoExc
    THEN Result(ended.self, ended.raised, None)
    ELSE LET session == MeasurementSession(uuid4(ended.self), now,
                                           operator_name, vehicle_info,
                                           test_info)
         IN Result([ended.self EXCEPT
                        !.uuid_count = @ + 1,
                        !.current_session = session,
                        !.data_points = <<>>,
                        !.metadata = [created_at |-> isoformat(now),
                                      session_type |-> "measurement"]],
                   NoExc, session)

\* start_session without the forced end of the active session
start_session_no_end(self, operator_name, vehicle_info, test_info, now, io) ==
    start_session_new(Result(self, NoExc, None),
                      operator_name, vehicle_info, test_info, now)

\* start_session
start_session(self, operator_name, vehicle_info, test_info, now, io) ==
    start_session_new(IF self.current_session # None
                      THEN end_session(self, now, io)
                      ELSE Result(self, NoExc, None),
                      operator_name, vehicle_info, test_info, now)

\* the key "timestamp" of a data point
TimestampKey == <<"timestamp">>

\* add_data_point without the check for an active session
add_data_point_unchecked(self, data, now) ==
    Result([self EXCEPT !.data_points =
               Append(@, data @@ (TimestampKey :> isoformat(now)))],
           NoExc, None)

\* add_data_point putting the new record first
add_data_point_prepend(self, data, now) ==
    IF self.current_session = None
    THEN Result(self, "RuntimeError", None)
    ELSE Result([self EXCEPT !.data_points =
                    <<data @@ (TimestampKey :> isoformat(now))>> \o @],
                NoExc, None)

\* add_data_point: {"timestamp": now, **data}, the keys of data win
add_data_point(self, data, now) ==
    IF self.current_session = None
    THEN Result(self, "RuntimeError", None)
    ELSE Result([self EXCEPT !.data_points =
                    Append(@, data @@ (TimestampKey :> isoformat(now)))],
                NoExc, None)

\* set_recording_path
set_recording_path(self, path) ==
    IF self.current_session = None
    THEN Result(self, "RuntimeError", None)
    ELSE Result([self EXCEPT !.current_session.recording_path = path],
                NoExc, None)

\* add_notes joining without the newline
add_notes_no_separator(self, notes) ==
    IF self.current_session = None
    THEN Result(self, "RuntimeError", None)
    ELSE IF Truthy(self.current_session.notes)
         THEN Result([self EXCEPT !.current_session.notes =
                         Str(@.str \o notes.str)],
                     NoExc, None)
         ELSE Result([self EXCEPT !.current_session.notes = notes], NoExc, None)

\* add_notes
add_notes(self, notes) ==
    IF self.current_session = None
    THEN Result(self, "RuntimeError", None)
    ELSE IF Truthy(self.current_session.notes)
         THEN Result([self EXCEPT !.current_session.notes =
                         Str(@.str \o <<"\n">> \o notes.str)],
                     NoExc, None)
         ELSE Result([self EXCEPT !.current_session.notes = notes], NoExc, None)

\* load_session returning nothing when the document cannot be loaded
load_session_swallows(self, session_id) ==
    IF session_id \notin DOMAIN self.files
    THEN Result(self, NoExc, None)
    ELSE IF ~IsJson(self.files[session_id])
    THEN Result(self, NoExc, None)
    ELSE IF from_dict_error(self.files[session_id].json) # NoExc
    THEN Result(self, NoExc, None)
    ELSE Result(self, NoExc, from_dict(json_load(self.files[session_id])))

\* load_session raising when no document exists
load_session_raises_missing(self, session_id) ==
    IF session_id \notin DOMAIN self.files
    THEN Result(self, "FileNotFoundError", None)
    ELSE IF ~IsJson(self.files[session_id])
    THEN Result(self, "JSONDecodeError", None)
    ELSE IF from_dict_error(self.files[session_id].json) # NoExc
    THEN Result(self, from_dict_error(self.files[session_id].json), None)
    ELSE Result(self, NoExc, from_dict(json_load(self.files[session_id])))

\* load_session: None when no file exists, the bundle when the document
\* parses and from_dict takes it, the exception of json.load or from_dict
\* otherwise
load_session(self, session_id) ==
    IF session_id \notin DOMAIN self.files
    THEN Result(self, NoExc, None)
    ELSE IF ~IsJson(self.files[session_id])
    THEN Result(self, "JSONDecodeError", None)
    ELSE IF from_dict_error(self.files[session_id].json) # NoExc
    THEN Result(self, from_dict_error(self.files[session_id].json), None)
    ELSE Result(self, NoExc, from_dict(json_load(self.files[session_id])))


\* ---------------------------------------------------- MeasurementController
\* Each method is a function of the controller c (the object self, the
\* directories dirs and the files under measurements_dir) and the call's
\* inputs to [c: the controller after the call, ret: the value returned].

ControllerVehicles == {"K57"}
ControllerTests == {"traction"}
ControllerConditions == {"standard", "wet"}
ControllerValues == {[float |-> 15], [float |-> 20]}

Returned(c, ret) == [c |-> c, ret |-> ret]

\* datetime.strftime("%Y%m%d_%H%M%S"): the reading to the second
strftime(d) == d.second

\* start_measurement starting a new measurement over the one in progress
start_measurement_restart(c, vehicle, test, condition, now) ==
    Returned([c EXCEPT
                 !.self.current_measurement =
                     [vehicle |-> vehicle,
                      test |-> test,
                      condition |-> condition,
                      start_time |-> isoformat(now),
                      data |-> <<>>],
                 !.self.current_data_dir = <<vehicle, test, strftime(now)>>,
                 !.self.is_measuring = TRUE,
                 !.dirs = @ \cup {<<vehicle, test, strftime(now)>>}],
             Bool(TRUE))

\* MeasurementController.start_measurement
start_measurement(c, vehicle, test, condition, now) ==
    IF c.self.is_measuring
    THEN Returned(c, Bool(FALSE))
    ELSE Returned([c EXCEPT
                      !.self.current_measurement =
                          [vehicle |-> vehicle,
                           test |-> test,
                           condition |-> condition,
                           start_time |-> isoformat(now),
                           data |-> <<>>],
                      !.self.current_data_dir =
                          <<vehicle, test, strftime(now)>>,
                      !.self.is_measuring = TRUE,
                      !.dirs = @ \cup {<<vehicle, test, strftime(now)>>}],
                  Bool(TRUE))

\* json.dump(self.current_measurement, f)
json_dump_measurement(measurement) ==
    [json |-> [measurement EXCEPT !.data =
                  [i \in 1..Len(measurement.data) |->
                      json_dump_point(measurement.data[i])]]]

\* csv.DictWriter(f, fieldnames=["timestamp", "value"]): the header, then
\* one row for each data point
csv_rows(data) ==
    <<<<"timestamp", "value">>>> \o
        [i \in 1..Len(data) |->
            <<data[i].timestamp.str, float_repr(data[i].value)>>]

\* what stop_measurement writes and returns for measurement, which has its
\* end_time
stop_measurement_save(c, measurement) ==
    Returned([c EXCEPT
                 !.files = DictSet(@, c.self.current_data_dir,
                                   [json |-> json_dump_measurement(measurement),
                                    csv |-> csv_rows(measurement.data)]),
                 !.self.current_measurement = None,
                 !.self.is_measuring = FALSE],
             measurement)

\* stop_measurement writing a measurement of no data while none is in
\* progress
stop_measurement_unchecked(c, now) ==
    stop_measurement_save(
        [c EXCEPT !.self.current_data_dir = <<"K57", "traction", 0>>],
        [data |-> <<>>, end_time |-> isoformat(now)])

\* stop_measurement returning the data newest first
stop_measurement_reversed(c, now) ==
    IF ~c.self.is_measuring
    THEN Returned(c, None)
    ELSE stop_measurement_save(
             c,
             ("end_time" :> isoformat(now)) @@
                 [c.self.current_measurement EXCEPT !.data =
                     [i \in 1..Len(@) |-> @[Len(@) + 1 - i]]])

\* MeasurementController.stop_measurement
stop_measurement(c, now) ==
    IF ~c.self.is_measuring
    THEN Returned(c, None)
    ELSE stop_measurement_save(
             c, ("end_time" :> isoformat(now)) @@ c.self.current_measurement)

\* start_measurement when mkdir at line 60 raises: the measurement and the
\* directory path are already assigned, is_measuring is not
start_measurement_mkdir_raises(c, vehicle, test, condition, now) ==
    IF c.self.is_measuring
    THEN Returned(c, Bool(FALSE))
    ELSE Returned([c EXCEPT
                      !.self.current_measurement =
                          [vehicle |-> vehicle,
                           test |-> test,
                           condition |-> condition,
                           start_time |-> isoformat(now),
                           data |-> <<>>],
                      !.self.current_data_dir =
                          <<vehicle, test, strftime(now)>>],
                  [raised |-> "OSError"])

\* stop_measurement when a write raises, at open of the JSON file (line 80)
\* or at open of the CSV file (line 85), which is after the JSON file was
\* written: the end_time is already set, nothing is reset
stop_measurement_write_raises(c, now, io) ==
    IF ~c.self.is_measuring
    THEN Returned(c, None)
    ELSE Returned(
             [c EXCEPT
                 !.self.current_measurement =
                     ("end_time" :> isoformat(now)) @@ @,
                 !.files =
                     IF io = "csv_fails"
                     THEN DictSet(@, c.self.current_data_dir,
                                  [json |-> json_dump_measurement(
                                       ("end_time" :> isoformat(now)) @@
                                           c.self.current_measurement)])
                     ELSE @],
             [raised |-> "OSError"])

\* MeasurementController.add_measurement_data
add_measurement_data(c, value, now) ==
    IF ~c.self.is_measuring
    THEN Returned(c, Bool(FALSE))
    ELSE Returned([c EXCEPT !.self.current_measurement.data =
                      Append(@, [timestamp |-> isoformat(now),
                                 value |-> value])],
                  Bool(TRUE))

\* ------------------------------------------------------ VoiceCommandHandler
\* the messages handle_command returns
MsgNotRecognized == "command not recognized"          \* line 43
MsgUnsupportedType == "unsupported command type"      \* line 57
MsgError == "error occurred"                          \* line 60
MsgSetVehicleAndTestFirst == "set vehicle and test first"  \* line 66
MsgSessionStarted == "session started"                \* line 73
MsgSessionEnded == "session ended and saved"          \* line 78
MsgNoActiveSession == "no active session"             \* line 80
MsgVehicleRegistered == "vehicle registered"          \* line 90
MsgTestRegistered == "test registered"                \* line 101
MsgConditionSet == "condition set"                    \* line 108
MsgDataRecorded == "data recorded"                    \* line 117
MsgInvalidNumber == "invalid number"                  \* line 119
MsgSessionNotStarted == "session not started"         \* str(RuntimeError), session_manager.py 125
MsgNoteAdded == "note added"                          \* line 127
MsgNone == "None"                                     \* a handler fell through

\* the handler object as one value
Handler ==
    [session_manager |-> Self,
     temp_vehicle_info |-> temp_vehicle_info,
     temp_test_info |-> temp_test_info,
     temp_test_conditions |-> temp_test_conditions]

\* what a _handle_* method gives: the handler after it, the message returned,
\* the exception leaving it, and the manager method it called (with the
\* exception that call raised and the value it returned)
Handled(h, message, raised, call, call_raised, call_ret) ==
    [h |-> h, message |-> message, raised |-> raised,
     call |-> call, call_raised |-> call_raised, call_ret |-> call_ret]

\* _handle_session_command, lines 68-73, once start_session has ended as r
session_started(h, r) ==
    Handled([h EXCEPT !.session_manager = r.self],
            IF r.raised = NoExc THEN MsgSessionStarted ELSE MsgNone,
            r.raised, "start_session", r.raised, r.ret)

\* _handle_session_command, lines 75-80, once end_session has ended as r
session_ended(h, r) ==
    Handled([h EXCEPT !.session_manager = r.self],
            IF r.raised # NoExc THEN MsgNone
            ELSE IF r.ret # None THEN MsgSessionEnded
            ELSE MsgNoActiveSession,
            r.raised, "end_session", r.raised, r.ret)

\* _handle_session_command starting the session under the staged vehicle's id
_handle_session_command_wrong_operator(h, command, now, io) ==
    IF command.action = "start"
    THEN IF h.temp_vehicle_info = None \/ h.temp_test_info = None
         THEN Handled(h, MsgSetVehicleAndTestFirst, NoExc, "none", NoExc, None)
         ELSE session_started(h, start_session(h.session_manager,
                                                 h.temp_vehicle_info.vehicle_id,
                                                 h.temp_vehicle_info,
                                                 h.temp_test_info, now, io))
    ELSE IF command.action = "end"
    THEN session_ended(h, end_session(h.session_manager, now, io))
    ELSE Handled(h, MsgNone, NoExc, "none", NoExc, None)

\* _handle_session_command raising on the missing precondition
_handle_session_command_raises(h, command, now, io) ==
    IF command.action = "start"
    THEN IF h.temp_vehicle_info = None \/ h.temp_test_info = None
         THEN Handled(h, MsgNone, "ValueError", "none", NoExc, None)
         ELSE session_started(h, start_session(h.session_manager,
                                                 command.params.operator_name,
                                                 h.temp_vehicle_info,
                                                 h.temp_test_info, now, io))
    ELSE IF command.action = "end"
    THEN session_ended(h, end_session(h.session_manager, now, io))
    ELSE Handled(h, MsgNone, NoExc, "none", NoExc, None)

_handle_session_command(h, command, now, io) ==
    IF command.action = "start"
    THEN IF h.temp_vehicle_info = None \/ h.temp_test_info = None
         THEN Handled(h, MsgSetVehicleAndTestFirst, NoExc, "none", NoExc, None)
         ELSE session_started(h, start_session(h.session_manager,
                                                 command.params.operator_name,
                                                 h.temp_vehicle_info,
                                                 h.temp_test_info, now, io))
    ELSE IF command.action = "end"
    THEN session_ended(h, end_session(h.session_manager, now, io))
    ELSE Handled(h, MsgNone, NoExc, "none", NoExc, None)

_handle_vehicle_command(h, command) ==
    IF command.action = "register"
    THEN Handled([h EXCEPT !.temp_vehicle_info =
                     VehicleInfo(command.params.vehicle_id,
                                 command.params.vehicle_name,
                                 command.params.vehicle_type)],
                 MsgVehicleRegistered, NoExc, "none", NoExc, None)
    ELSE Handled(h, MsgNone, NoExc, "none", NoExc, None)

\* _handle_test_command dropping a condition set once a test is pending
_handle_test_command_drops_late(h, command) ==
    IF command.action = "register"
    THEN Handled([h EXCEPT !.temp_test_info =
                     TestInfo(command.params.test_id,
                              command.params.test_name,
                              command.params.test_type,
                              RouterDict)],
                 MsgTestRegistered, NoExc, "none", NoExc, None)
    ELSE IF command.action = "set_condition"
    THEN IF h.temp_test_info = None
         THEN Handled([h EXCEPT !.temp_test_conditions =
                          DictSet(@, command.params.condition_name,
                                  command.params.condition_value)],
                      MsgConditionSet, NoExc, "none", NoExc, None)
         ELSE Handled(h, MsgConditionSet, NoExc, "none", NoExc, None)
    ELSE Handled(h, MsgNone, NoExc, "none", NoExc, None)

\* _handle_test_command giving each registered test an empty dict of its own
_handle_test_command_fresh_dict(h, command) ==
    IF command.action = "register"
    THEN Handled([h EXCEPT !.temp_test_info =
                     TestInfo(command.params.test_id,
                              command.params.test_name,
                              command.params.test_type,
                              OwnDict(EmptyDict))],
                 MsgTestRegistered, NoExc, "none", NoExc, None)
    ELSE IF command.action = "set_condition"
    THEN IF h.temp_test_info = None
         THEN Handled([h EXCEPT !.temp_test_conditions =
                          DictSet(@, command.params.condition_name,
                                  command.params.condition_value)],
                      MsgConditionSet, NoExc, "none", NoExc, None)
         ELSE Handled([h EXCEPT !.temp_test_info.conditions.val =
                          DictSet(@, command.params.condition_name,
                                  command.params.condition_value)],
                      MsgConditionSet, NoExc, "none", NoExc, None)
    ELSE Handled(h, MsgNone, NoExc, "none", NoExc, None)

\* register hands the router's one conditions dict to the new TestInfo;
\* set_condition writes into temp_test_conditions or into the dict of the
\* pending test, which is that same dict
_handle_test_command(h, command) ==
    IF command.action = "register"
    THEN Handled([h EXCEPT !.temp_test_info =
                     TestInfo(command.params.test_id,
                              command.params.test_name,
                              command.params.test_type,
                              RouterDict)],
                 MsgTestRegistered, NoExc, "none", NoExc, None)
    ELSE IF command.action = "set_condition"
    THEN IF h.temp_test_info = None
         THEN Handled([h EXCEPT !.temp_test_conditions =
                          DictSet(@, command.params.condition_name,
                                  command.params.condition_value)],
                      MsgConditionSet, NoExc, "none", NoExc, None)
         ELSE IF "ref" \in DOMAIN h.temp_test_info.conditions
              THEN Handled([h EXCEPT !.temp_test_conditions =
                               DictSet(@, command.params.condition_name,
                                       command.params.condition_value)],
                           MsgConditionSet, NoExc, "none", NoExc, None)
              ELSE Handled([h EXCEPT !.temp_test_info.conditions.val =
                               DictSet(@, command.params.condition_name,
                                       command.params.condition_value)],
                           MsgConditionSet, NoExc, "none", NoExc, None)
    ELSE Handled(h, MsgNone, NoExc, "none", NoExc, None)

\* a handler whose manager call ended as r: the handler catches a
\* RuntimeError and returns its text (lines 120-121, 128-129)
recorded(h, call, r, message) ==
    Handled([h EXCEPT !.session_manager = r.self],
            IF r.raised = "RuntimeError" THEN MsgSessionNotStarted ELSE message,
            NoExc, call, r.raised, r.ret)

\* _handle_measurement_command recording 0.0 for a text that is no number
_handle_measurement_command_zero(h, command, now) ==
    recorded(h, "add_data_point",
             add_data_point(h.session_manager,
                            command.params.item_name :>
                                (IF IsFloatLiteral(command.params.value)
                                 THEN float(command.params.value)
                                 ELSE [float |-> 0]),
                            now),
             MsgDataRecorded)

_handle_measurement_command(h, command, now) ==
    IF ~IsFloatLiteral(command.params.value)
    THEN Handled(h, MsgInvalidNumber, NoExc, "none", NoExc, None)
    ELSE recorded(h, "add_data_point",
                  add_data_point(h.session_manager,
                                 command.params.item_name :>
                                     float(command.params.value),
                                 now),
                  MsgDataRecorded)

_handle_note_command(h, command) ==
    recorded(h, "add_notes",
             add_notes(h.session_manager, Str(command.params.content)),
             MsgNoteAdded)

\* handle_command letting the exception of a handler through
except_Exception_reraise(r) == r

\* handle_command, lines 58-60: an exception leaving a handler becomes the
\* generic message
except_Exception(r) ==
    IF r.raised # NoExc
    THEN Handled(r.h, MsgError, NoExc, r.call, r.call_raised, r.call_ret)
    ELSE r

\* handle_command dispatching without the check for no command
handle_command_unchecked(h, command, now, io) ==
    IF command = None
    THEN Handled(h, MsgNone, "AttributeError", "none", NoExc, None)
    ELSE except_Exception(
             CASE command.command_type = "session" ->
                      _handle_session_command(h, command, now, io)
               [] command.command_type = "vehicle" ->
                      _handle_vehicle_command(h, command)
               [] command.command_type = "test" ->
                      _handle_test_command(h, command)
               [] command.command_type = "measurement" ->
                      _handle_measurement_command(h, command, now)
               [] command.command_type = "note" ->
                      _handle_note_command(h, command)
               [] OTHER ->
                      Handled(h, MsgUnsupportedType, NoExc, "none", NoExc, None))

\* handle_command, from the parsed command on: dispatch on command_type,
\* every exception becomes the generic message
handle_command(h, command, now, io) ==
    IF command = None
    THEN Handled(h, MsgNotRecognized, NoExc, "none", NoExc, None)
    ELSE except_Exception(
             CASE command.command_type = "session" ->
                      _handle_session_command(h, command, now, io)
               [] command.command_type = "vehicle" ->
                      _handle_vehicle_command(h, command)
               [] command.command_type = "test" ->
                      _handle_test_command(h, command)
               [] command.command_type = "measurement" ->
                      _handle_measurement_command(h, command, now)
               [] command.command_type = "note" ->
                      _handle_note_command(h, command)
               [] OTHER ->
                      Handled(h, MsgUnsupportedType, NoExc, "none", NoExc, None))


\* ------------------------------------------------------------------ inputs
ParsedCommand(command_type, action, params) ==
    [command_type |-> command_type, action |-> action, params |-> params]

\* the commands the parser produces (None: no pattern matched)
StartCommands ==
    {ParsedCommand("session", "start", [operator_name |-> o]) : o \in OperatorNames}

EndCommand == ParsedCommand("session", "end", EmptyDict)

VehicleCommands ==
    {ParsedCommand("vehicle", "register",
                   [vehicle_id |-> v, vehicle_name |-> "car", vehicle_type |-> "sedan"]) :
        v \in VehicleIds}

RegisterTestCommands ==
    {ParsedCommand("test", "register",
                   [test_id |-> t, test_name |-> "brake", test_type |-> "road"]) :
        t \in TestIds}

SetConditionCommands ==
    {ParsedCommand("test", "set_condition",
                   [condition_name |-> n, condition_value |-> v]) :
        n \in ConditionNames, v \in ConditionValues}

MeasurementCommands ==
    {ParsedCommand("measurement", "add", [item_name |-> i, value |-> v]) :
        i \in ItemNames, v \in ValueTexts}

NoteCommands ==
    {ParsedCommand("note", "add", [content |-> c]) : c \in NoteTexts}

\* the commands of the runs that follow sessions through their life cycle
LifecycleCommands ==
    {c \in StartCommands : c.params.operator_name = "yamada"}
        \cup {EndCommand}
        \cup {c \in VehicleCommands : c.params.vehicle_id = "V1"}
        \cup {c \in RegisterTestCommands : c.params.test_id = "T1"}
        \cup {c \in MeasurementCommands :
                 c.params.item_name = <<"speed">> /\ c.params.value # <<".">>}

\* the commands of the runs that follow the router's staging state
StagingCommands ==
    StartCommands \cup {EndCommand} \cup VehicleCommands
        \cup RegisterTestCommands \cup SetConditionCommands

\* the commands of the runs that vary what one session holds
DataCommands ==
    {c \in StartCommands : c.params.operator_name = "yamada"}
        \cup {EndCommand}
        \cup {c \in VehicleCommands : c.params.vehicle_id = "V1"}
        \cup {c \in RegisterTestCommands : c.params.test_id = "T1"}
        \cup {c \in SetConditionCommands : c.params.condition_value = "20"}
        \cup {c \in MeasurementCommands :
                 c.params.item_name = <<"speed">> /\ IsFloatLiteral(c.params.value)}
        \cup NoteCommands

\* ------------------------------------------------------ VoiceCommandParser
\* A text is the sequence of its characters.  A character outside ASCII is
\* written as its code point ("u8a08" is U+8A08), so that two keywords share
\* a prefix in the model exactly when they do in the source.
KeisokuKaishi == <<"u8a08", "u6e2c", "u958b", "u59cb">>                  \* 計測開始
Operator == <<"u30aa", "u30da", "u30ec", "u30fc", "u30bf", "u30fc">>     \* オペレーター
ShinkiSession == <<"u65b0", "u898f", "u30bb", "u30c3", "u30b7", "u30e7", "u30f3">>  \* 新規セッション
Tantousha == <<"u62c5", "u5f53", "u8005">>                               \* 担当者
KeisokuShuuryou == <<"u8a08", "u6e2c", "u7d42", "u4e86">>                \* 計測終了
SessionShuuryou == <<"u30bb", "u30c3", "u30b7", "u30e7", "u30f3", "u7d42", "u4e86">>  \* セッション終了
SharyouJouhouTouroku == <<"u8eca", "u4e21", "u60c5", "u5831", "u767b", "u9332">>  \* 車両情報登録
SharyouSettei == <<"u8eca", "u4e21", "u8a2d", "u5b9a">>                  \* 車両設定
Id == <<"I", "D">>                                                       \* ID
Meishou == <<"u540d", "u79f0">>                                          \* 名称
Shubetsu == <<"u7a2e", "u5225">>                                         \* 種別
Namae == <<"u540d", "u524d">>                                            \* 名前
Taipu == <<"u30bf", "u30a4", "u30d7">>                                   \* タイプ
ShikenJouhouTouroku == <<"u8a66", "u9a13", "u60c5", "u5831", "u767b", "u9332">>  \* 試験情報登録
ShikenJoukenSettei == <<"u8a66", "u9a13", "u6761", "u4ef6", "u8a2d", "u5b9a">>   \* 試験条件設定
Wa == <<"u306f">>                                                        \* は
Keisokuchi == <<"u8a08", "u6e2c", "u5024">>                              \* 計測値
DataNyuuryoku == <<"u30c7", "u30fc", "u30bf", "u5165", "u529b">>         \* データ入力
MemoTsuika == <<"u30e1", "u30e2", "u8ffd", "u52a0">>                     \* メモ追加
Chuushaku == <<"u6ce8", "u91c8">>                                        \* 注釈

\* the characters \s matches in a str pattern (space, newline, U+3000
\* ideographic space) and the characters \d matches (the ASCII digits)
Whitespace == {" ", "\n", "u3000"}

Digits == {ToString(n) : n \in 0..9}

\* the character classes of the patterns: \s, [^\s], [\d.] and .
InClass(c, class) ==
    CASE class = "space" -> c \in Whitespace
      [] class = "nonspace" -> c \notin Whitespace
      [] class = "number" -> c \in Digits \cup {"."}
      [] class = "any" -> c # "\n"

\* the elements of a pattern: a literal, or a greedy repetition of a class
\* (at least min characters), captured under a group name when it has one
Lit(chars) == [lit |-> chars]

Rep(class, min, group) == [class |-> class, min |-> min, group |-> group]

Spaces == Rep("space", 1, "")              \* \s+

OptSpaces == Rep("space", 0, "")           \* \s*

Word(group) == Rep("nonspace", 1, group)   \* (?P<group>[^\s]+)

\* session_patterns whose first end alternative is the two characters the
\* end keyword shares with the start and the measurement keywords
session_patterns_shared_keyword ==
    << [action |-> "start",
        pattern |-> <<Lit(KeisokuKaishi), Spaces, Lit(Operator), OptSpaces,
                      Word("operator_name")>>],
       [action |-> "start",
        pattern |-> <<Lit(ShinkiSession), Spaces, Lit(Tantousha), OptSpaces,
                      Word("operator_name")>>],
       [action |-> "end", pattern |-> <<Lit(SubSeq(KeisokuShuuryou, 1, 2))>>],
       [action |-> "end", pattern |-> <<Lit(SessionShuuryou)>>] >>

session_patterns ==
    << [action |-> "start",
        pattern |-> <<Lit(KeisokuKaishi), Spaces, Lit(Operator), OptSpaces,
                      Word("operator_name")>>],
       [action |-> "start",
        pattern |-> <<Lit(ShinkiSession), Spaces, Lit(Tantousha), OptSpaces,
                      Word("operator_name")>>],
       [action |-> "end", pattern |-> <<Lit(KeisokuShuuryou)>>],
       [action |-> "end", pattern |-> <<Lit(SessionShuuryou)>>] >>

vehicle_patterns ==
    << [action |-> "register",
        pattern |-> <<Lit(SharyouJouhouTouroku), Spaces, Lit(Id), OptSpaces,
                      Word("vehicle_id"), Spaces, Lit(Meishou), OptSpaces,
                      Word("vehicle_name"), Spaces, Lit(Shubetsu), OptSpaces,
                      Word("vehicle_type")>>],
       [action |-> "register",
        pattern |-> <<Lit(SharyouSettei), Spaces, Lit(Id), OptSpaces,
                      Word("vehicle_id"), Spaces, Lit(Namae), OptSpaces,
                      Word("vehicle_name"), Spaces, Lit(Taipu), OptSpaces,
                      Word("vehicle_type")>>] >>

test_patterns ==
    << [action |-> "register",
        pattern |-> <<Lit(ShikenJouhouTouroku), Spaces, Lit(Id), OptSpaces,
                      Word("test_id"), Spaces, Lit(Meishou), OptSpaces,
                      Word("test_name"), Spaces, Lit(Shubetsu), OptSpaces,
                      Word("test_type")>>],
       [action |-> "set_condition",
        pattern |-> <<Lit(ShikenJoukenSettei), Spaces, Word("condition_name"),
                      Lit(Wa), Rep("any", 1, "condition_value")>>] >>

measurement_patterns ==
    << [action |-> "add",
        pattern |-> <<Lit(Keisokuchi), Spaces, Word("item_name"), OptSpaces,
                      Rep("number", 1, "value"), OptSpaces,
                      Rep("nonspace", 0, "unit")>>],
       [action |-> "add",
        pattern |-> <<Lit(DataNyuuryoku), Spaces, Word("item_name"), OptSpaces,
                      Rep("number", 1, "value")>>] >>

note_patterns ==
    << [action |-> "add",
        pattern |-> <<Lit(MemoTsuika), Spaces, Rep("any", 1, "content")>>],
       [action |-> "add",
        pattern |-> <<Lit(Chuushaku), Spaces, Rep("any", 1, "content")>>] >>

Max(S) == CHOOSE x \in S : \A y \in S : y <= x

Min(S) == CHOOSE x \in S : \A y \in S : x <= y

\* the length of the longest run of characters of class in text from pos
Run(text, pos, class) ==
    Max({n \in 0..(Len(text) - pos + 1) :
            \A k \in pos..(pos + n - 1) : InClass(text[k], class)})

NoMatch == [matched |-> FALSE]

\* a repetition that takes n characters at pos, the rest of the pattern
\* having matched as rest
Captured(e, text, pos, n, rest) ==
    IF e.group = "" THEN rest
    ELSE [matched |-> TRUE,
          groupdict |-> (e.group :> SubSeq(text, pos, pos + n - 1))
                            @@ rest.groupdict,
          end |-> rest.end]

RECURSIVE match_from(_, _, _, _)

\* a lazy repetition: the shortest length is taken
match_shortest(pattern, i, text, pos, lengths) ==
    IF lengths = {} THEN NoMatch
    ELSE Captured(pattern[i], text, pos, Min(lengths),
                  match_from(pattern, i + 1, text, pos + Min(lengths)))

\* a greedy repetition at element i: of the lengths with which the rest of
\* the pattern matches, the longest is taken
match_longest(pattern, i, text, pos, lengths) ==
    IF lengths = {} THEN NoMatch
    ELSE Captured(pattern[i], text, pos, Max(lengths),
                  match_from(pattern, i + 1, text, pos + Max(lengths)))

\* re.match from element i of the pattern and position pos of the text
match_from(pattern, i, text, pos) ==
    IF i > Len(pattern)
    THEN [matched |-> TRUE, groupdict |-> EmptyDict, end |-> pos - 1]
    ELSE IF "lit" \in DOMAIN pattern[i]
    THEN IF pos + Len(pattern[i].lit) - 1 <= Len(text)
         THEN IF SubSeq(text, pos, pos + Len(pattern[i].lit) - 1) = pattern[i].lit
              THEN match_from(pattern, i + 1, text, pos + Len(pattern[i].lit))
              ELSE NoMatch
         ELSE NoMatch
    ELSE match_longest(pattern, i, text, pos,
             {n \in pattern[i].min..Run(text, pos, pattern[i].class) :
                 match_from(pattern, i + 1, text, pos + n).matched})

\* re.fullmatch: the pattern as matched at the beginning must end the text
re_fullmatch(pattern, text) ==
    IF match_from(pattern, 1, text, 1).matched
    THEN IF match_from(pattern, 1, text, 1).end = Len(text)
         THEN match_from(pattern, 1, text, 1)
         ELSE NoMatch
    ELSE NoMatch

\* re.match(pattern, text): the pattern matches at the beginning of the text
re_match(pattern, text) == match_from(pattern, 1, text, 1)

\* _check_patterns returning the action declared first
first_match_first_action(text, patterns, command_type, hits) ==
    IF hits = {} THEN None
    ELSE ParsedCommand(command_type, patterns[1].action,
                       re_match(patterns[Min(hits)].pattern, text).groupdict)

\* _check_patterns, once the alternatives that match are known: the command
\* of the first of them in declared order
first_match(text, patterns, command_type, hits) ==
    IF hits = {} THEN None
    ELSE ParsedCommand(command_type, patterns[Min(hits)].action,
                       re_match(patterns[Min(hits)].pattern, text).groupdict)

\* _check_patterns
_check_patterns(text, patterns, command_type) ==
    first_match(text, patterns, command_type,
                {i \in 1..Len(patterns) :
                    re_match(patterns[i].pattern, text).matched})

\* parse, "if result: return result": the result when there is one
or_else(result, otherwise) == IF result # None THEN result ELSE otherwise

\* parse: session, vehicle, test, measurement, note, in this order
parse(text) ==
    or_else(_check_patterns(text, session_patterns, "session"),
    or_else(_check_patterns(text, vehicle_patterns, "vehicle"),
    or_else(_check_patterns(text, test_patterns, "test"),
    or_else(_check_patterns(text, measurement_patterns, "measurement"),
            _check_patterns(text, note_patterns, "note")))))

\* --------------------------------------------------------- CommandProcessor
\* The names and aliases of command_patterns, as code points like the
\* parser's keywords.
SokuteiKaishi == <<"u6e2c", "u5b9a", "u958b", "u59cb">>    \* 測定開始
Sutaato == <<"u30b9", "u30bf", "u30fc", "u30c8">>    \* スタート
Kaishi == <<"u958b", "u59cb">>    \* 開始
SokuteiShuuryou == <<"u6e2c", "u5b9a", "u7d42", "u4e86">>    \* 測定終了
Sutoppu == <<"u30b9", "u30c8", "u30c3", "u30d7">>    \* ストップ
Shuuryou == <<"u7d42", "u4e86">>    \* 終了
KishuSentaku == <<"u6a5f", "u7a2e", "u9078", "u629e">>    \* 機種選択
KishuWoSentaku == <<"u6a5f", "u7a2e", "u3092", "u9078", "u629e">>    \* 機種を選択
KishuHenkou == <<"u6a5f", "u7a2e", "u5909", "u66f4">>    \* 機種変更
ShikenSentaku == <<"u8a66", "u9a13", "u9078", "u629e">>    \* 試験選択
ShikenWoSentaku == <<"u8a66", "u9a13", "u3092", "u9078", "u629e">>    \* 試験を選択
ShikenHenkou == <<"u8a66", "u9a13", "u5909", "u66f4">>    \* 試験変更

\* command_patterns in the order of the dict: the name of each command
\* followed by its aliases
command_patterns ==
    <<[patterns |-> <<KeisokuKaishi, SokuteiKaishi, Sutaato, Kaishi>>,
       action |-> "start_measurement", requires_param |-> FALSE],
      [patterns |-> <<KeisokuShuuryou, SokuteiShuuryou, Sutoppu, Shuuryou>>,
       action |-> "stop_measurement", requires_param |-> FALSE],
      [patterns |-> <<KishuSentaku, KishuWoSentaku, KishuHenkou>>,
       action |-> "select_vehicle", requires_param |-> TRUE],
      [patterns |-> <<ShikenSentaku, ShikenWoSentaku, ShikenHenkou>>,
       action |-> "select_test", requires_param |-> TRUE]>>

\* str.strip()
strip(text) ==
    SubSeq(text,
           Min({i \in 1..Len(text) : text[i] \notin Whitespace}
                   \cup {Len(text) + 1}),
           Max({i \in 1..Len(text) : text[i] \notin Whitespace} \cup {0}))

\* the offsets at which pattern occurs in text
occurrences(text, pattern) ==
    {i \in 0..(Len(text) - Len(pattern)) :
        SubSeq(text, i + 1, i + Len(pattern)) = pattern}

\* str.find(pattern): the offset of the first occurrence, -1 without one
find(text, pattern) ==
    IF occurrences(text, pattern) = {} THEN -1
    ELSE Min(occurrences(text, pattern))

\* difflib.SequenceMatcher: the length of the block a[i..] and b[j..] have
\* in common inside a[..ahi] and b[..bhi]
common(a, i, ahi, b, j, bhi) ==
    Max({k \in 0..Min({ahi - i + 1, bhi - j + 1}) :
            \A d \in 0..(k - 1) : a[i + d] = b[j + d]})

\* find_longest_match: the longest block of a[alo..ahi] and b[blo..bhi],
\* the earliest in a and then the earliest in b among the longest
longest_size(a, alo, ahi, b, blo, bhi) ==
    Max({common(a, i, ahi, b, j, bhi) : i \in alo..ahi, j \in blo..bhi}
        \cup {0})

longest_at(a, alo, ahi, b, blo, bhi, k) ==
    CHOOSE m \in (alo..ahi) \X (blo..bhi) :
        /\ common(a, m[1], ahi, b, m[2], bhi) = k
        /\ \A n \in (alo..ahi) \X (blo..bhi) :
              common(a, n[1], ahi, b, n[2], bhi) = k
                  => \/ m[1] < n[1]
                     \/ m[1] = n[1] /\ m[2] <= n[2]

\* get_matching_blocks: the characters in the longest block and in the
\* blocks matched left and right of it
RECURSIVE matches(_, _, _, _, _, _)
RECURSIVE matches_around(_, _, _, _, _, _, _, _)
matches_around(a, alo, ahi, b, blo, bhi, k, m) ==
    k + matches(a, alo, m[1] - 1, b, blo, m[2] - 1)
      + matches(a, m[1] + k, ahi, b, m[2] + k, bhi)

matches_of(a, alo, ahi, b, blo, bhi, k) ==
    IF k = 0 THEN 0
    ELSE matches_around(a, alo, ahi, b, blo, bhi, k,
                        longest_at(a, alo, ahi, b, blo, bhi, k))

matches(a, alo, ahi, b, blo, bhi) ==
    IF alo > ahi \/ blo > bhi THEN 0
    ELSE matches_of(a, alo, ahi, b, blo, bhi,
                    longest_size(a, alo, ahi, b, blo, bhi))

\* a ratio num / den
Ratio(num, den) == [num |-> num, den |-> den]

\* SequenceMatcher(None, a, b).ratio(): 2.0 * matches / (len(a) + len(b)),
\* 1.0 for two empty texts
ratio(a, b) ==
    IF Len(a) + Len(b) = 0 THEN Ratio(1, 1)
    ELSE Ratio(2 * matches(a, 1, Len(a), b, 1, Len(b)), Len(a) + Len(b))

\* r > q
Greater(r, q) == r.num * q.den > q.num * r.den

\* lines 86-88: the best match so far is replaced when r is greater
better(state, action, r) ==
    IF Greater(r, state.best_ratio)
    THEN [state EXCEPT !.best_ratio = r, !.best_match = action]
    ELSE state

\* lines 73-88: one pattern of one command checked against the input
check_pattern(state, details, pattern, normalized_input) ==
    IF details.requires_param
    THEN IF find(normalized_input, pattern) # -1
         THEN better(
                  [state EXCEPT !.matched_param =
                      Str(strip(SubSeq(
                          normalized_input,
                          find(normalized_input, pattern) + Len(pattern) + 1,
                          Len(normalized_input))))],
                  details.action, Ratio(1, 1))
         ELSE state
    ELSE better(state, details.action, ratio(pattern, normalized_input))

\* lines 67-88: the loops over the commands and over the patterns of each,
\* from pattern j of command i on
RECURSIVE check_all(_, _, _, _)
check_all(state, i, j, normalized_input) ==
    IF i > Len(command_patterns) THEN state
    ELSE IF j > Len(command_patterns[i].patterns)
    THEN check_all(state, i + 1, 1, normalized_input)
    ELSE check_all(check_pattern(state, command_patterns[i],
                                 command_patterns[i].patterns[j],
                                 normalized_input),
                   i, j + 1, normalized_input)

\* lines 91-94: the threshold 0.8
process_command_result(state) ==
    IF 5 * state.best_ratio.num >= 4 * state.best_ratio.den
    THEN <<state.best_match, state.matched_param>>
    ELSE <<"unknown_command", None>>

\* CommandProcessor.process_command
process_command(voice_input) ==
    process_command_result(
        check_all([best_match |-> None, best_ratio |-> Ratio(0, 1),
                   matched_param |-> None],
                  1, 1, strip(voice_input)))

\* update_state starting the measurement whatever is selected
update_state_unchecked(self, action, param) ==
    IF action = "start_measurement"
    THEN Returned([self EXCEPT !.is_measuring = TRUE], Bool(TRUE))
    ELSE Returned(self, Bool(TRUE))

\* update_state storing the parameter of a select_condition action
update_state_selects_condition(self, action, param) ==
    IF action = "start_measurement"
    THEN IF Truthy(self.selected_vehicle) /\ Truthy(self.selected_test)
            /\ Truthy(self.selected_condition)
         THEN Returned([self EXCEPT !.is_measuring = TRUE], Bool(TRUE))
         ELSE Returned(self, Bool(FALSE))
    ELSE IF action = "stop_measurement"
    THEN Returned([self EXCEPT !.is_measuring = FALSE], Bool(TRUE))
    ELSE IF action = "select_vehicle"
    THEN IF ~Truthy(param) THEN Returned(self, Bool(FALSE))
         ELSE Returned([self EXCEPT !.selected_vehicle = param], Bool(TRUE))
    ELSE IF action = "select_test"
    THEN IF ~Truthy(param) THEN Returned(self, Bool(FALSE))
         ELSE Returned([self EXCEPT !.selected_test = param,
                                    !.selected_condition = None],
                       Bool(TRUE))
    ELSE IF action = "select_condition"
    THEN IF ~Truthy(param) THEN Returned(self, Bool(FALSE))
         ELSE Returned([self EXCEPT !.selected_condition = param], Bool(TRUE))
    ELSE Returned(self, Bool(TRUE))

\* CommandProcessor.update_state on current_state
update_state(self, action, param) ==
    IF action = "start_measurement"
    THEN IF Truthy(self.selected_vehicle) /\ Truthy(self.selected_test)
            /\ Truthy(self.selected_condition)
         THEN Returned([self EXCEPT !.is_measuring = TRUE], Bool(TRUE))
         ELSE Returned(self, Bool(FALSE))
    ELSE IF action = "stop_measurement"
    THEN Returned([self EXCEPT !.is_measuring = FALSE], Bool(TRUE))
    ELSE IF action = "select_vehicle"
    THEN IF ~Truthy(param) THEN Returned(self, Bool(FALSE))
         ELSE Returned([self EXCEPT !.selected_vehicle = param], Bool(TRUE))
    ELSE IF action = "select_test"
    THEN IF ~Truthy(param) THEN Returned(self, Bool(FALSE))
         ELSE Returned([self EXCEPT !.selected_test = param,
                                    !.selected_condition = None],
                       Bool(TRUE))
    ELSE Returned(self, Bool(TRUE))

\* the write is reached by session/start and session/end only
WriteOutcomesOf(command, outcomes) ==
    IF command # None /\ command.command_type = "session"
    THEN outcomes ELSE {"ok"}

\* ----------------------------------------------------------------- actions
WithinBounds(self, max_sessions) ==
    /\ self.uuid_count <= max_sessions
    /\ Len(self.data_points) <= MaxPoints
    /\ IF self.current_session = None THEN TRUE
       ELSE IF self.current_session.notes = None THEN TRUE
       ELSE Len(self.current_session.notes.str) <= 2 * MaxNotes - 1

SetManager(self) ==
    /\ current_session' = self.current_session
    /\ data_points' = self.data_points
    /\ metadata' = self.metadata
    /\ files' = self.files
    /\ uuid_count' = self.uuid_count

\* the id of the active session, 0 in NoSession
ActiveId(session) == IF session = None THEN 0 ELSE session.session_id

\* the last call: the entry point, the text or the id it was given (when it
\* was given one), the command it was given or parsed from the text, the manager
\* method it reached, what that method raised and returned, what the entry
\* point raised, the message it returned; the session that was active when
\* the call was made, and the outcome of the write when the call reached it
Last(op, text, command, r, io) ==
    [op |-> op, text |-> text, command |-> command, call |-> r.call,
     call_raised |-> r.call_raised, call_ret |-> r.call_ret,
     raised |-> r.raised, message |-> r.message,
     active_before |-> ActiveId(current_session),
     write |-> IF r.call \in {"start_session", "end_session"}
                  /\ current_session # None
               THEN io ELSE "none"]

\* the ids of the sessions made so far, one more when start_session returns
Created(r) ==
    IF r.call = "start_session" /\ r.call_raised = NoExc
    THEN Append(created_ids, r.call_ret.session_id)
    ELSE created_ids

\* the conditions dispatched before the first test/register, one more when
\* command is a set_condition and no test has been registered
Dispatched(command) ==
    IF command # None
    THEN IF command.command_type = "test" /\ command.action = "set_condition"
            /\ temp_test_info = None
         THEN conditions_dispatched \cup
                  {<<command.params.condition_name,
                     command.params.condition_value>>}
         ELSE conditions_dispatched
    ELSE conditions_dispatched

\* two callers of one SessionManager, neither inside a call: one calls
\* end_session, the other add_data_point. synchronized says whether the
\* callers run every entry point inside one mutual-exclusion scope; calls
\* counts the add_data_point calls made, returned lists the points
\* add_data_point returned normally for, each with the session that was
\* active when the call tested it
ThreadsIdle(synchronized) ==
    [synchronized |-> synchronized,
     end_session |-> [pc |-> "idle", measurement_data |-> None],
     add_data_point |-> [pc |-> "idle", data |-> None, session_id |-> 0],
     calls |-> 0,
     returned |-> <<>>]

\* the last call of an object called directly: the method, its arguments
\* and what it returned
Called(op, args, ret) == [op |-> op, args |-> args, ret |-> ret]

\* MeasurementController.__init__, with the directories and the files under
\* measurements_dir; started and added are history: the arguments of the
\* last start_measurement that returned True and the values
\* add_measurement_data returned True for since
ControllerNew ==
    [self |-> [current_measurement |-> None,
               is_measuring |-> FALSE,
               current_data_dir |-> None],
     dirs |-> {},
     files |-> EmptyDict,
     started |-> <<>>,
     added |-> <<>>,
     last |-> Called("__init__", <<>>, None)]

\* CommandProcessor.__init__: current_state
ProcessorNew ==
    [self |-> [is_measuring |-> FALSE,
               selected_vehicle |-> None,
               selected_test |-> None,
               selected_condition |-> None],
     last |-> Called("__init__", <<>>, None)]

\* the manager and the handler as constructed, the clock at reading; text is
\* the text a run that calls the parser alone will give it
\* and stored the documents found under sessions_dir; synchronized says
\* whether the manager's callers share one mutual-exclusion scope
InitAt(reading, text, stored, synchronized) ==
    /\ current_session = None
    /\ data_points = <<>>
    /\ metadata = EmptyDict
    /\ files = stored
    /\ uuid_count = 0
    /\ clock = reading
    /\ temp_vehicle_info = None
    /\ temp_test_info = None
    /\ temp_test_conditions = EmptyDict
    /\ created_ids = <<>>
    /\ conditions_dispatched = {}
    /\ last = Last("__init__", text, None,
                   Handled(None, MsgNone, NoExc, "none", NoExc, None), "none")
    /\ threads = ThreadsIdle(synchronized)
    /\ controller = ControllerNew
    /\ processor = ProcessorNew

\* the manager and the handler as constructed
Init == InitAt(0, None, EmptyDict, TRUE)

\* time passes between calls
Tick ==
    /\ clock < MaxTime
    /\ clock' = clock + 1
    /\ UNCHANGED <<manager_vars, staging_vars, created_ids,
                   conditions_dispatched, last, aside_vars>>

\* the wall clock is set back between calls: datetime.now() reads the
\* system's local time, which an adjustment of the clock moves backwards
ClockSetBack ==
    /\ clock > 0
    /\ \E reading \in 0..(clock - 1) : clock' = reading
    /\ UNCHANGED <<manager_vars, staging_vars, created_ids,
                   conditions_dispatched, last, aside_vars>>

\* handle_command given text (None when the command is given parsed) and
\* having parsed command: the dispatch and the state it leaves
Dispatch(text, command, max_sessions, io) ==
    \E r \in {handle_command(Handler, command, datetime(clock), io)} :
       /\ WithinBounds(r.h.session_manager, max_sessions)
       /\ SetManager(r.h.session_manager)
       /\ temp_vehicle_info' = r.h.temp_vehicle_info
       /\ temp_test_info' = r.h.temp_test_info
       /\ temp_test_conditions' = r.h.temp_test_conditions
       /\ created_ids' = Created(r)
       /\ conditions_dispatched' = Dispatched(command)
       /\ last' = Last("handle_command", text, command, r, io)
       /\ UNCHANGED <<clock, aside_vars>>

\* VoiceCommandHandler.handle_command, from the parsed command on
HandleCommand(commands, max_sessions, outcomes) ==
    \E command \in commands :
      \E io \in WriteOutcomesOf(command, outcomes) :
        Dispatch(None, command, max_sessions, io)

\* VoiceCommandHandler.handle_command(text)
HandleUtterance(texts, max_sessions, outcomes) ==
    \E text \in texts :
      \E command \in {parse(text)} :
        \E io \in WriteOutcomesOf(command, outcomes) :
          Dispatch(Str(text), command, max_sessions, io)

\* VoiceCommandParser.parse(text), called directly
Parse ==
    /\ last.op = "__init__"
    /\ last.text # None
    /\ last' = Last("parse", last.text, parse(last.text.str),
                    Handled(None, MsgNone, NoExc, "parse", NoExc,
                            parse(last.text.str)),
                    "none")
    /\ UNCHANGED <<manager_vars, staging_vars, clock, created_ids,
                   conditions_dispatched, aside_vars>>

\* SessionManager.load_session, called directly
LoadSession(ids) ==
    \E session_id \in ids :
      \E r \in {load_session(Self, session_id)} :
         /\ SetManager(r.self)
         /\ last' = Last("load_session", [session_id |-> session_id], None,
                         Handled(None, MsgNone, r.raised, "load_session",
                                 r.raised, r.ret),
                         "none")
         /\ UNCHANGED <<clock, staging_vars, created_ids,
                        conditions_dispatched, aside_vars>>

\* SessionManager.add_notes, called directly
AddNotes(texts) ==
    \E chars \in texts :
      \E r \in {add_notes(Self, Str(chars))} :
         /\ WithinBounds(r.self, MaxDataSessions)
         /\ SetManager(r.self)
         /\ last' = Last("add_notes", Str(chars), None,
                         Handled(None, MsgNone, r.raised, "add_notes",
                                 r.raised, r.ret),
                         "none")
         /\ UNCHANGED <<clock, staging_vars, created_ids,
                        conditions_dispatched, aside_vars>>

\* SessionManager.set_recording_path, called directly
SetRecordingPath ==
    \E chars \in PathTexts :
        \E r \in {set_recording_path(Self, Path(chars))} :
           /\ SetManager(r.self)
           /\ last' = Last("set_recording_path", None, None,
                           Handled(None, MsgNone, r.raised, "set_recording_path",
                                   r.raised, r.ret),
                           "none")
           /\ UNCHANGED <<clock, staging_vars, created_ids,
                          conditions_dispatched, aside_vars>>

\* callers that enter a manager method whatever the other is doing
MayEnter_unguarded(other) == TRUE

\* what a call of the MeasurementController leaves alone
ControllerFrame ==
    UNCHANGED <<manager_vars, clock, staging_vars, created_ids,
                conditions_dispatched, last, threads, processor>>

\* MeasurementController.start_measurement(vehicle, test, condition)
StartMeasurement ==
    \E vehicle \in ControllerVehicles, test \in ControllerTests,
       condition \in ControllerConditions :
      \E r \in {start_measurement(controller, vehicle, test, condition,
                                  datetime(clock))} :
         /\ controller' =
               [r.c EXCEPT
                   !.started = IF r.ret = Bool(TRUE)
                               THEN <<vehicle, test, condition>> ELSE @,
                   !.added = IF r.ret = Bool(TRUE) THEN <<>> ELSE @,
                   !.last = Called("start_measurement",
                                   <<vehicle, test, condition>>, r.ret)]
         /\ ControllerFrame

\* MeasurementController.stop_measurement()
StopMeasurement ==
    \E r \in {stop_measurement(controller, datetime(clock))} :
       /\ controller' = [r.c EXCEPT !.last = Called("stop_measurement",
                                                    <<>>, r.ret)]
       /\ ControllerFrame

\* MeasurementController.add_measurement_data(value)
AddMeasurementData ==
    \E value \in ControllerValues :
      \E r \in {add_measurement_data(controller, value, datetime(clock))} :
         /\ IF r.c.self.current_measurement = None THEN TRUE
            ELSE Len(r.c.self.current_measurement.data) <= MaxPoints
         /\ controller' =
               [r.c EXCEPT
                   !.added = IF r.ret = Bool(TRUE) THEN Append(@, value) ELSE @,
                   !.last = Called("add_measurement_data", <<value>>, r.ret)]
         /\ ControllerFrame

\* MeasurementController.start_measurement(vehicle, test, condition) on a
\* file system that refuses the directory
StartMeasurementFails ==
    \E vehicle \in ControllerVehicles, test \in ControllerTests,
       condition \in ControllerConditions :
      \E r \in {start_measurement_mkdir_raises(controller, vehicle, test,
                                               condition, datetime(clock))} :
         /\ controller' = [r.c EXCEPT !.last = Called("start_measurement",
                                                      <<vehicle, test, condition>>,
                                                      r.ret)]
         /\ ControllerFrame

\* MeasurementController.stop_measurement() on a file system that refuses
\* one of the two files
StopMeasurementFails ==
    \E io \in {"json_fails", "csv_fails"} :
      \E r \in {stop_measurement_write_raises(controller, datetime(clock), io)} :
         /\ controller' = [r.c EXCEPT !.last = Called("stop_measurement",
                                                      <<>>, r.ret)]
         /\ ControllerFrame

\* what a call of the CommandProcessor leaves alone
ProcessorFrame ==
    UNCHANGED <<manager_vars, clock, staging_vars, created_ids,
                conditions_dispatched, last, threads, controller>>

ProcessorActions ==
    {"start_measurement", "stop_measurement", "select_vehicle",
     "select_test", "select_condition"}

ProcessorParams == {None, Str(<<>>), Str(<<"K", "5", "7">>), Str(<<"T">>)}

\* CommandProcessor.update_state(action, param)
UpdateState ==
    \E action \in ProcessorActions, param \in ProcessorParams :
      \E r \in {update_state(processor.self, action, param)} :
         /\ processor' = [self |-> r.c,
                          last |-> Called("update_state", <<action, param>>,
                                          r.ret)]
         /\ ProcessorFrame

\* CommandProcessor.process_command(voice_input), called once with the text
\* the run was given
ProcessCommand ==
    /\ last.op = "__init__"
    /\ last.text # None
    /\ processor.last.op = "__init__"
    /\ processor' = [processor EXCEPT !.last =
                        Called("process_command", <<last.text>>,
                               process_command(last.text.str))]
    /\ ProcessorFrame

\* A caller may enter a manager method when the callers are unsynchronized,
\* or when the other caller is inside none
MayEnter(other) == threads.synchronized => threads[other].pc = "idle"

\* what a step of one of the two callers leaves alone
ThreadFrame ==
    UNCHANGED <<uuid_count, clock, staging_vars, created_ids,
                conditions_dispatched, last, controller, processor>>

\* end_session, lines 92-94: the call and its test for an active session
EndCall ==
    /\ threads.end_session.pc = "idle"
    /\ MayEnter("add_data_point")
    /\ threads' = IF current_session = None
                  THEN threads
                  ELSE [threads EXCEPT !.end_session.pc = "96"]
    /\ UNCHANGED manager_vars
    /\ ThreadFrame

\* end_session, line 96: the end_time is stamped on the session object
End96 ==
    /\ threads.end_session.pc = "96"
    /\ current_session' = [current_session EXCEPT !.end_time = datetime(clock)]
    /\ threads' = [threads EXCEPT !.end_session.pc = "97"]
    /\ UNCHANGED <<data_points, metadata, files>>
    /\ ThreadFrame

\* end_session, lines 97-101: the bundle names the session object, the list
\* self.data_points names and the metadata dict; it copies none of them
End97 ==
    /\ threads.end_session.pc = "97"
    /\ threads' = [threads EXCEPT
                      !.end_session.pc = "104",
                      !.end_session.measurement_data =
                          [session |-> current_session,
                           metadata |-> metadata]]
    /\ UNCHANGED manager_vars
    /\ ThreadFrame

\* end_session, line 104: _save_session_data writes what the bundle's list
\* holds now; its exception leaves end_session
End104 ==
    /\ threads.end_session.pc = "104"
    /\ \E io \in WriteOutcomes :
         \E saved \in {_save_session_data(
                          Self,
                          MeasurementData(
                              threads.end_session.measurement_data.session,
                              data_points,
                              threads.end_session.measurement_data.metadata),
                          io)} :
            /\ files' = saved.self.files
            /\ threads' = IF saved.raised # NoExc
                          THEN [threads EXCEPT
                                   !.end_session.pc = "idle",
                                   !.end_session.measurement_data = None]
                          ELSE [threads EXCEPT !.end_session.pc = "110"]
    /\ UNCHANGED <<current_session, data_points, metadata>>
    /\ ThreadFrame

\* end_session, line 110
End110 ==
    /\ threads.end_session.pc = "110"
    /\ current_session' = None
    /\ threads' = [threads EXCEPT !.end_session.pc = "111"]
    /\ UNCHANGED <<data_points, metadata, files>>
    /\ ThreadFrame

\* end_session, line 111: self.data_points names a new list, the bundle
\* keeps the old one
End111 ==
    /\ threads.end_session.pc = "111"
    /\ data_points' = <<>>
    /\ threads' = [threads EXCEPT
                      !.end_session.pc = "112",
                      !.end_session.measurement_data =
                          MeasurementData(@.session, data_points, @.metadata)]
    /\ UNCHANGED <<current_session, metadata, files>>
    /\ ThreadFrame

\* end_session, lines 112-114: the metadata is reset and the bundle returned
End112 ==
    /\ threads.end_session.pc = "112"
    /\ metadata' = EmptyDict
    /\ threads' = [threads EXCEPT !.end_session.pc = "idle",
                                  !.end_session.measurement_data = None]
    /\ UNCHANGED <<current_session, data_points, files>>
    /\ ThreadFrame

\* add_data_point, lines 123-125: the call and its test for an active
\* session; RuntimeError leaves the method when there is none. The n-th
\* call gives the value n
AddCall ==
    /\ threads.add_data_point.pc = "idle"
    /\ MayEnter("end_session")
    /\ threads.calls < MaxPoints
    /\ threads' = IF current_session = None
                  THEN [threads EXCEPT !.calls = @ + 1]
                  ELSE [threads EXCEPT
                           !.calls = @ + 1,
                           !.add_data_point =
                               [pc |-> "127",
                                data |-> (<<"speed">> :>
                                             [float |-> threads.calls + 1]),
                                session_id |-> current_session.session_id]]
    /\ UNCHANGED manager_vars
    /\ ThreadFrame

\* add_data_point, lines 127-130: the record is appended to the list
\* self.data_points names now, and the method returns
Add127 ==
    /\ threads.add_data_point.pc = "127"
    /\ data_points' = Append(data_points,
                             threads.add_data_point.data @@
                                 (TimestampKey :> isoformat(datetime(clock))))
    /\ threads' = [threads EXCEPT
                      !.add_data_point =
                          [pc |-> "idle", data |-> None, session_id |-> 0],
                      !.returned =
                          Append(@, [session_id |->
                                         threads.add_data_point.session_id,
                                     point |-> threads.add_data_point.data @@
                                         (TimestampKey :>
                                              isoformat(datetime(clock)))])]
    /\ UNCHANGED <<current_session, metadata, files>>
    /\ ThreadFrame

\* sessions through their life cycle: start, measure, end, under every
\* outcome of the write, as time passes
Next ==
    \/ Tick
    \/ HandleCommand(LifecycleCommands, MaxSessions, WriteOutcomes)

Spec == Init /\ [][Next]_vars

\* the router's staging state: vehicles, tests and conditions registered
\* before, between and during sessions
StagingNext ==
    HandleCommand(StagingCommands, MaxSessions, WriteOutcomes)

StagingSpec == Init /\ [][StagingNext]_vars

\* what one session holds: conditions, points, notes, the recording path,
\* at each reading of the clock, every write succeeding
DataInit == \E reading \in 0..MaxTime : InitAt(reading, None, EmptyDict, TRUE)

DataNext ==
    \/ HandleCommand(DataCommands, MaxDataSessions, {"ok"})
    \/ SetRecordingPath

DataSpec == DataInit /\ [][DataNext]_vars


\* the recognised texts the router is given: one of each command, numbers
\* that float() takes and numbers it refuses, and texts no pattern matches
Yamada == <<"u5c71", "u7530">>                                           \* 山田
Sokudo == <<"u901f", "u5ea6">>                                           \* 速度
Konnichiwa == <<"u3053", "u3093", "u306b", "u3061", "u306f">>            \* こんにちは

Utterances ==
    { KeisokuKaishi \o <<" ">> \o Operator \o <<" ">> \o Yamada,
      KeisokuShuuryou,
      SharyouJouhouTouroku \o <<" ">> \o Id \o <<" ", "V", " ">> \o Meishou
          \o <<" ", "c", " ">> \o Shubetsu \o <<" ", "s">>,
      ShikenJouhouTouroku \o <<" ">> \o Id \o <<" ", "T", " ">> \o Meishou
          \o <<" ", "b", " ">> \o Shubetsu \o <<" ", "r">>,
      ShikenJoukenSettei \o <<" ", "t">> \o Wa \o <<"2", "0">>,
      Keisokuchi \o <<" ">> \o Sokudo \o <<" ", "1", ".", "5">>,
      Keisokuchi \o <<" ">> \o Sokudo \o <<" ", "1", ".", "2", ".", "3">>,
      Keisokuchi \o <<" ">> \o Sokudo \o <<" ", ".">>,
      MemoTsuika \o <<" ", "a">>,
      Konnichiwa,
      KeisokuKaishi \o <<" ">> \o Yamada,
      <<" ">> \o KeisokuShuuryou }

UtteranceNext ==
    HandleUtterance(Utterances, MaxDataSessions, WriteOutcomes)

UtteranceSpec == Init /\ [][UtteranceNext]_vars

\* the texts the parser is given: every text of up to MaxParts parts
RECURSIVE TextsOf(_, _)
TextsOf(parts, n) ==
    IF n = 0 THEN {<<>>}
    ELSE TextsOf(parts, n - 1)
             \cup {t \o part : t \in TextsOf(parts, n - 1), part \in parts}

ParseParts ==
    {KeisokuKaishi, Operator, <<" ">>, <<"\n">>, Yamada, <<"a">>, Konnichiwa}

ParseInit ==
    \E text \in TextsOf(ParseParts, MaxParts) :
        InitAt(0, Str(text), EmptyDict, TRUE)

ParseNext == Parse

ParseSpec == ParseInit /\ [][ParseNext]_vars

\* the notes of a session: texts added one after the other, the empty text
\* among them
NoteInputs == {<<"a">>, <<"b">>, <<>>}

SessionCommands ==
    {c \in StartCommands : c.params.operator_name = "yamada"}
        \cup {EndCommand}
        \cup {c \in VehicleCommands : c.params.vehicle_id = "V1"}
        \cup {c \in RegisterTestCommands : c.params.test_id = "T1"}

NotesNext ==
    \/ HandleCommand(SessionCommands, MaxDataSessions, {"ok"})
    \/ AddNotes(NoteInputs)

NotesSpec == Init /\ [][NotesNext]_vars

\* sessions started and ended at the readings of a wall clock that runs and
\* is now and then set back
ClockCommands == SessionCommands \cup StartCommands

ClockNext ==
    \/ Tick
    \/ ClockSetBack
    \/ HandleCommand(ClockCommands, MaxDataSessions, {"ok"})

ClockSpec == Init /\ [][ClockNext]_vars

\* documents found under sessions_dir when the manager is made: one an
\* earlier run wrote, that document with a key taken out, and one that is
\* no JSON
StoredId == 8

Without(d, key) == [k \in DOMAIN d \ {key} |-> d[k]]

GoodDocument ==
    [session |->
        [session_id |-> StoredId,
         start_time |-> isoformat(datetime(0)),
         end_time |-> isoformat(datetime(1)),
         operator_name |-> "sato",
         vehicle_info |-> VehicleInfo("V1", "car", "sedan"),
         test_info |-> [TestInfo("T1", "brake", "road", RouterDict)
                           EXCEPT !.conditions = EmptyDict],
         recording_path |-> None,
         notes |-> Str(<<"a">>)],
     data_points |-> <<>>,
     metadata |-> [created_at |-> isoformat(datetime(0)),
                   session_type |-> "measurement"]]

StoredDocuments ==
    {[json |-> GoodDocument], Truncated,
     [json |-> [GoodDocument EXCEPT !.session = Without(@, "notes")]],
     [json |-> [GoodDocument EXCEPT !.session.start_time = Str(<<"x">>)]]}
        \cup {[json |-> Without(GoodDocument, key)] : key \in RequiredKeys.top}
        \cup {[json |-> [GoodDocument EXCEPT !.session = Without(@, key)]] :
                 key \in RequiredKeys.session}
        \cup {[json |-> [GoodDocument EXCEPT !.session.vehicle_info =
                                                Without(@, key)]] :
                 key \in RequiredKeys.vehicle_info}
        \cup {[json |-> [GoodDocument EXCEPT !.session.test_info =
                                                Without(@, key)]] :
                 key \in RequiredKeys.test_info}

StoreInit ==
    \/ Init
    \/ \E document \in StoredDocuments :
          InitAt(0, None, StoredId :> document, TRUE)

StoreCommands ==
    SessionCommands
        \cup {c \in MeasurementCommands :
                 c.params.item_name = <<"speed">>
                     /\ c.params.value = <<"1", ".", "5">>}

StoreNext ==
    \/ HandleCommand(StoreCommands, MaxDataSessions, WriteOutcomes)
    \/ LoadSession(1..MaxDataSessions \cup {StoredId})

StoreSpec == StoreInit /\ [][StoreNext]_vars

\* one caller ends the session while another adds data points, with and
\* without one mutual-exclusion scope around the two entry points; the
\* sessions are staged and started while neither is inside a call
ThreadInit ==
    \E synchronized \in BOOLEAN : InitAt(0, None, EmptyDict, synchronized)

ThreadNext ==
    \/ /\ threads.end_session.pc = "idle"
       /\ threads.add_data_point.pc = "idle"
       /\ HandleCommand(SessionCommands, MaxDataSessions, {"ok"})
    \/ EndCall
    \/ End96
    \/ End97
    \/ End104
    \/ End110
    \/ End111
    \/ End112
    \/ AddCall
    \/ Add127

ThreadSpec == ThreadInit /\ [][ThreadNext]_vars

\* measurements started, filled and stopped as time passes
ControllerNext ==
    \/ Tick
    \/ StartMeasurement
    \/ StopMeasurement
    \/ AddMeasurementData

ControllerSpec == Init /\ [][ControllerNext]_vars

\* the state of the CommandProcessor under every action and parameter
ProcessorNext == UpdateState

ProcessorSpec == Init /\ [][ProcessorNext]_vars

\* the texts process_command is given: every text of up to MaxWords parts
CommandParts ==
    {KishuSentaku, ShikenSentaku, KishuHenkou, KeisokuKaishi, Kaishi,
     <<" ">>, <<"K">>}

CommandInit ==
    \E text \in TextsOf(CommandParts, MaxWords) :
        InitAt(0, Str(text), EmptyDict, TRUE)

CommandNext == ProcessCommand

CommandSpec == CommandInit /\ [][CommandNext]_vars

\* texts of more than one command type given to the parser: an end, a
\* measurement and a note, with what may follow them
OrderParts ==
    {KeisokuShuuryou, Keisokuchi, MemoTsuika, <<" ">>, <<"1">>, <<".">>}

OrderInit ==
    \E text \in TextsOf(OrderParts, MaxParts) :
        InitAt(0, Str(text), EmptyDict, TRUE)

OrderNext == Parse

OrderSpec == OrderInit /\ [][OrderNext]_vars

\* points spoken into one session as time passes: the item names are a
\* measured quantity and the word "timestamp" itself
PointUtterances ==
    { KeisokuKaishi \o <<" ">> \o Operator \o <<" ">> \o Yamada,
      SharyouJouhouTouroku \o <<" ">> \o Id \o <<" ", "V", " ">> \o Meishou
          \o <<" ", "c", " ">> \o Shubetsu \o <<" ", "s">>,
      ShikenJouhouTouroku \o <<" ">> \o Id \o <<" ", "T", " ">> \o Meishou
          \o <<" ", "b", " ">> \o Shubetsu \o <<" ", "r">>,
      Keisokuchi \o <<" ">> \o Sokudo \o <<" ", "1", ".", "5">>,
      Keisokuchi \o <<" ">> \o TimestampKey \o <<" ", "1", ".", "5">>,
      Keisokuchi \o <<" ">> \o TimestampKey \o <<" ", "2">> }

PointNext ==
    \/ Tick
    \/ HandleUtterance(PointUtterances, MaxDataSessions, {"ok"})

PointSpec == Init /\ [][PointNext]_vars

\* one utterance for each declared alternative, in declared order
KeywordCommands ==
    { KeisokuKaishi \o <<" ">> \o Operator \o <<" ", "a">>,
      ShinkiSession \o <<" ">> \o Tantousha \o <<" ", "a">>,
      KeisokuShuuryou,
      SessionShuuryou,
      SharyouJouhouTouroku \o <<" ">> \o Id \o <<" ", "V", " ">> \o Meishou
          \o <<" ", "c", " ">> \o Shubetsu \o <<" ", "s">>,
      SharyouSettei \o <<" ">> \o Id \o <<" ", "V", " ">> \o Namae
          \o <<" ", "c", " ">> \o Taipu \o <<" ", "s">>,
      ShikenJouhouTouroku \o <<" ">> \o Id \o <<" ", "T", " ">> \o Meishou
          \o <<" ", "b", " ">> \o Shubetsu \o <<" ", "r">>,
      ShikenJoukenSettei \o <<" ", "t">> \o Wa \o <<"2">>,
      Keisokuchi \o <<" ", "s", " ", "1">>,
      DataNyuuryoku \o <<" ", "s", " ", "1">>,
      MemoTsuika \o <<" ", "a">>,
      Chuushaku \o <<" ", "a">> }

\* the texts given to the parser: each utterance cut short anywhere, and
\* each utterance followed, with or without a blank, by another
KeywordTexts ==
    UNION {{SubSeq(a, 1, n) : n \in 0..Len(a)} : a \in KeywordCommands}
        \cup {a \o sep \o b : a \in KeywordCommands, b \in KeywordCommands,
                              sep \in {<<>>, <<" ">>}}

KeywordInit ==
    \E text \in KeywordTexts : InitAt(0, Str(text), EmptyDict, TRUE)

KeywordNext == Parse

KeywordSpec == KeywordInit /\ [][KeywordNext]_vars

\* a MeasurementController whose directory creation and file writes can fail
FaultNext ==
    \/ StartMeasurement
    \/ StopMeasurement
    \/ AddMeasurementData
    \/ StartMeasurementFails
    \/ StopMeasurementFails

FaultSpec == Init /\ [][FaultNext]_vars

\* ------------------------------------------------------------------ claims
\* a step that is a call (time does not pass inside a call)
CallStep == clock' = clock

Seeded(now) == [created_at |-> isoformat(now), session_type |-> "measurement"]

\* the session leaves the manager: to NoSession or to another session
Leaves ==
    /\ current_session # None
    /\ ActiveId(current_session') # ActiveId(current_session)

\* C1: start_session called while a session S is active first ends S (S's
\* document holds the end_time stamped by the call and every data point of
\* S) and only then makes the new session: when it returns, the active
\* session is a new one with an id no document carries, no end_time, no
\* data points and freshly seeded metadata; when the forced end fails, S
\* stays the active session and no session is made.
C1_StartEndsActiveSessionFirst ==
    [][(CallStep /\ last'.call = "start_session" /\ current_session # None)
        => IF last'.call_raised = NoExc
           THEN /\ current_session.session_id \in DOMAIN files'
                /\ IsJson(files'[current_session.session_id])
                /\ json_load(files'[current_session.session_id]).session.end_time
                       = isoformat(datetime(clock))
                /\ json_load(files'[current_session.session_id]).data_points
                       = data_points
                /\ current_session' # None
                /\ current_session'.session_id # current_session.session_id
                /\ current_session'.session_id \notin DOMAIN files'
                /\ current_session'.end_time = None
                /\ data_points' = <<>>
                /\ metadata' = Seeded(datetime(clock))
           ELSE /\ ActiveId(current_session') = ActiveId(current_session)
                /\ data_points' = data_points
                /\ uuid_count' = uuid_count]_vars

\* C1 witness: start_session returned after ending a session that held points
C1_Witness ==
    /\ last.call = "start_session"
    /\ last.call_raised = NoExc
    /\ last.active_before # 0
    /\ last.active_before \in DOMAIN files
    /\ IsJson(files[last.active_before])
    /\ Len(files[last.active_before].json.data_points) > 0
    /\ current_session # None

\* C2 as claimed: every end_session made while a session is active leaves
\* the manager in NoSession with the document written.
C2_EveryEndLeavesNoSession ==
    (last.call = "end_session" /\ last.active_before # 0)
        => /\ current_session = None
           /\ data_points = <<>>
           /\ metadata = EmptyDict
           /\ last.active_before \in DOMAIN files
           /\ IsJson(files[last.active_before])

\* C2 amended, state part: an end_session made while a session is active
\* leaves NoSession (no session, no points, no metadata) and returns the
\* bundle when its write succeeds; when the write fails it raises and the
\* session stays active.
C2_EndOutcome ==
    (last.call = "end_session" /\ last.active_before # 0)
        => IF last.write = "ok"
           THEN /\ last.call_raised = NoExc
                /\ last.call_ret # None
                /\ current_session = None
                /\ data_points = <<>>
                /\ metadata = EmptyDict
                /\ last.active_before \in DOMAIN files
                /\ IsJson(files[last.active_before])
           ELSE /\ last.call_raised # NoExc
                /\ ActiveId(current_session) = last.active_before

\* C2 amended: the outcome above, and the manager leaves a session only in
\* a step that has written that session's document under its id.
C2_EndLeavesNoSessionOnceWritten ==
    /\ []C2_EndOutcome
    /\ [][Leaves
           => /\ current_session.session_id \in DOMAIN files'
              /\ IsJson(files'[current_session.session_id])
              /\ json_load(files'[current_session.session_id]).session.session_id
                     = current_session.session_id]_vars

\* C2 witness: end_session ended an active session, its document is written
C2_Witness ==
    /\ last.call = "end_session"
    /\ last.active_before # 0
    /\ last.write = "ok"
    /\ current_session = None
    /\ IsJson(files[last.active_before])

\* C3: add_data_point, add_notes and set_recording_path called in NoSession
\* raise RuntimeError and change neither the session, the data points, the
\* metadata nor any document.
C3_NoSessionCallsRaise ==
    [][(CallStep /\ current_session = None
          /\ last'.call \in {"add_data_point", "add_notes", "set_recording_path"})
        => /\ last'.call_raised = "RuntimeError"
           /\ UNCHANGED <<current_session, data_points, metadata, files>>]_vars

\* C3 witness: a call rejected after a session has been ended
C3_Witness ==
    /\ last.call \in {"add_data_point", "add_notes", "set_recording_path"}
    /\ last.call_raised = "RuntimeError"
    /\ current_session = None
    /\ 1 \in DOMAIN files

\* C4: while a session stays active its data points change only by a
\* successful add_data_point, which puts exactly one record after the ones
\* already held; when the session leaves the manager its document, and the
\* bundle end_session returns, hold exactly those records in that order.
C4_PointsAppendOnly ==
    [][/\ (current_session # None
             /\ ActiveId(current_session') = ActiveId(current_session))
           => \/ data_points' = data_points
              \/ /\ last'.call = "add_data_point"
                 /\ last'.call_raised = NoExc
                 /\ Len(data_points') = Len(data_points) + 1
                 /\ SubSeq(data_points', 1, Len(data_points)) = data_points
       /\ (CallStep /\ last'.call = "add_data_point" /\ last'.call_raised = NoExc)
           => /\ Len(data_points') = Len(data_points) + 1
              /\ SubSeq(data_points', 1, Len(data_points)) = data_points
       /\ Leaves
           => /\ json_load(files'[current_session.session_id]).data_points
                     = data_points
              /\ last'.call = "end_session"
                     => last'.call_ret.data_points = data_points]_vars

\* C4 witness: a bundle returned with two different points
C4_Witness ==
    /\ last.call = "end_session"
    /\ last.call_ret # None
    /\ Len(last.call_ret.data_points) = 2
    /\ last.call_ret.data_points[1] # last.call_ret.data_points[2]


\* C5 as claimed: once the end_time of a session is set, no later step
\* changes or clears it.
C5_EndTimeNeverChanges ==
    [][(/\ current_session # None
        /\ current_session.end_time # None
        /\ ActiveId(current_session') = ActiveId(current_session))
        => current_session'.end_time = current_session.end_time]_vars

\* C6: the ids of the sessions start_session has made are pairwise
\* distinct, and every id carried by the active session or by a document
\* is the id of one of them.
C6_SessionIdsDistinct ==
    /\ \A i, j \in 1..Len(created_ids) :
           i # j => created_ids[i] # created_ids[j]
    /\ Len(created_ids) = uuid_count
    /\ current_session # None
           => current_session.session_id = created_ids[Len(created_ids)]

\* C6 witness: a second session has been made
C6_Witness == Len(created_ids) >= 2 /\ current_session # None

\* a bundle as a value: its conditions read through the reference
BundleValue(bundle) ==
    [bundle EXCEPT !.session.test_info.conditions =
        DictOf(@, temp_test_conditions)]

\* C7: when end_session has returned a bundle B, load_session of B's
\* session id returns a bundle equal to B field for field.
C7_RoundTrip ==
    (last.call = "end_session" /\ last.call_ret # None)
        => LET B == last.call_ret
               L == load_session(Self, B.session.session_id)
           IN /\ L.raised = NoExc
              /\ L.ret # None
              /\ BundleValue(L.ret) = BundleValue(B)

\* C7 witness: a bundle with points, notes, a recording path, a condition
\* and times that carry a fraction
C7_Witness ==
    /\ last.call = "end_session"
    /\ last.call_ret # None
    /\ Len(last.call_ret.data_points) > 0
    /\ last.call_ret.session.notes # None
    /\ last.call_ret.session.recording_path # None
    /\ DOMAIN temp_test_conditions # {}
    /\ last.call_ret.session.end_time.microsecond # 0

\* C8: when the write of the session document fails inside end_session
\* (called directly or by start_session), the call raises the failure and
\* returns nothing.
C8_WriteFailurePropagates ==
    last.write \in {"open_fails", "dump_fails"}
        => /\ last.call_raised = "OSError"
           /\ last.call_ret = None

\* C8 witness: end_session raised after a write that failed part-way
C8_Witness ==
    /\ last.call = "end_session"
    /\ last.write = "dump_fails"
    /\ last.call_raised = "OSError"


\* the last call was handle_command with a session/start command
StartDispatched ==
    /\ last.op = "handle_command"
    /\ last.command # None
    /\ last.command.command_type = "session"
    /\ last.command.action = "start"

\* the active session is a new one made from the command and the staging
StartedFromStaging ==
    /\ last.message = MsgSessionStarted
    /\ current_session # None
    /\ current_session.session_id # last.active_before
    /\ current_session.operator_name = last.command.params.operator_name
    /\ current_session.vehicle_info = temp_vehicle_info
    /\ current_session.test_info = temp_test_info

\* C9 as claimed: with a vehicle and a test staged, every session/start
\* succeeds and the active session carries the captured operator name, the
\* staged vehicle and the staged test.
C9_StartWithStagingSucceeds ==
    (StartDispatched /\ temp_vehicle_info # None /\ temp_test_info # None)
        => StartedFromStaging

\* C9 amended: with a vehicle and a test staged, a session/start succeeds
\* as claimed unless a session is active and the write that ends it fails;
\* then handle_command returns the generic error message and that session
\* stays the active one.
C9_StartSucceedsUnlessForcedEndFails ==
    (StartDispatched /\ temp_vehicle_info # None /\ temp_test_info # None)
        => IF last.write \in {"open_fails", "dump_fails"}
           THEN /\ last.message = MsgError
                /\ last.active_before # 0
                /\ ActiveId(current_session) = last.active_before
           ELSE StartedFromStaging

\* C9 witness: a session started from the staging while another was active
C9_Witness ==
    /\ StartDispatched
    /\ StartedFromStaging
    /\ last.active_before # 0
    /\ temp_test_info.test_id = "T2"

\* C10: a session/start dispatched while the pending vehicle or the pending
\* test is unset returns the validation message, raises nothing, calls no
\* manager method and changes neither the manager nor the staging.
C10_StartWithoutStagingRejected ==
    [][(CallStep /\ StartDispatched'
          /\ (temp_vehicle_info = None \/ temp_test_info = None))
        => /\ last'.message = MsgSetVehicleAndTestFirst
           /\ last'.raised = NoExc
           /\ last'.call = "none"
           /\ UNCHANGED <<manager_vars, staging_vars, created_ids>>]_vars

\* C10 witness: the validation message with only a vehicle staged
C10_Witness ==
    /\ StartDispatched
    /\ last.message = MsgSetVehicleAndTestFirst
    /\ temp_vehicle_info # None
    /\ temp_test_info = None
    /\ current_session = None

\* the step is the first test/register
FirstRegister == temp_test_info = None /\ temp_test_info' # None

\* the last call was handle_command with a test/set_condition command
SetConditionDispatched ==
    /\ last.op = "handle_command"
    /\ last.command # None
    /\ last.command.command_type = "test"
    /\ last.command.action = "set_condition"

\* C11 as claimed: every set_condition dispatched before the first
\* test/register is contained, same name and same value, in the conditions
\* map of the test that register creates.
C11_EveryConditionContained ==
    [][FirstRegister
        => \A p \in conditions_dispatched :
              /\ p[1] \in DOMAIN DictOf(temp_test_info'.conditions,
                                        temp_test_conditions')
              /\ DictOf(temp_test_info'.conditions,
                        temp_test_conditions')[p[1]] = p[2]]_vars

\* C11 amended: the conditions map of the test created by the first
\* test/register holds every name set before it, each with the value of the
\* last set_condition of that name: a set_condition before the register
\* writes its value under its name and leaves the other names alone, and
\* the register hands over the map as it then is.
C11_LastConditionPerNameContained ==
    [][/\ (CallStep /\ temp_test_info = None /\ temp_test_info' = None)
           => IF SetConditionDispatched'
              THEN /\ temp_test_conditions' =
                         DictSet(temp_test_conditions,
                                 last'.command.params.condition_name,
                                 last'.command.params.condition_value)
                   /\ <<last'.command.params.condition_name,
                        last'.command.params.condition_value>>
                          \in conditions_dispatched'
              ELSE temp_test_conditions' = temp_test_conditions
       /\ FirstRegister
           => /\ DictOf(temp_test_info'.conditions, temp_test_conditions')
                     = temp_test_conditions
              /\ \A p \in conditions_dispatched :
                     p[1] \in DOMAIN DictOf(temp_test_info'.conditions,
                                           temp_test_conditions')]_vars

\* C11 witness: a test registered after two set_condition of one name, its
\* map holding the later value
C11_Witness ==
    /\ last.command # None
    /\ last.command.command_type = "test"
    /\ last.command.action = "register"
    /\ Cardinality(conditions_dispatched) = 2
    /\ temp_test_info # None
    /\ DOMAIN DictOf(temp_test_info.conditions, temp_test_conditions) # {}

\* the last call was handle_command with a measurement/add command
MeasurementDispatched ==
    /\ last.op = "handle_command"
    /\ last.command # None
    /\ last.command.command_type = "measurement"

\* C12: handle_command given a text returns a message and never raises: a
\* missing start precondition, a text that is no number and a rejection for
\* want of an active session yield their own messages, every other failure
\* raised during the dispatch yields the generic error message.
C12_HandleCommandNeverRaises ==
    (last.op = "handle_command" /\ last.text # None)
        => /\ last.raised = NoExc
           /\ last.message # MsgNone
           /\ (StartDispatched
                  /\ (temp_vehicle_info = None \/ temp_test_info = None))
                  => last.message = MsgSetVehicleAndTestFirst
           /\ (MeasurementDispatched
                  /\ ~IsFloatLiteral(last.command.params.value))
                  => last.message = MsgInvalidNumber
           /\ last.call_raised = "RuntimeError"
                  => last.message = MsgSessionNotStarted
           /\ (last.call = "end_session" /\ last.active_before = 0)
                  => last.message = MsgNoActiveSession
           /\ last.call_raised \notin {NoExc, "RuntimeError"}
                  => last.message = MsgError

\* C12 witness: the generic message after the write of session/end failed
C12_Witness ==
    /\ last.op = "handle_command"
    /\ last.text = Str(KeisokuShuuryou)
    /\ last.call_raised = "OSError"
    /\ last.message = MsgError

\* C13: a measurement/add whose captured value is no number returns the
\* invalid-number message, reaches no manager method and appends no point,
\* with or without an active session; when the value is a number exactly
\* one point {item_name: value} is handed to add_data_point.
C13_InvalidNumberAppendsNothing ==
    [][(CallStep /\ MeasurementDispatched')
        => IF ~IsFloatLiteral(last'.command.params.value)
           THEN /\ last'.message = MsgInvalidNumber
                /\ last'.call = "none"
                /\ UNCHANGED manager_vars
           ELSE /\ last'.call = "add_data_point"
                /\ data_points' =
                       IF current_session = None THEN data_points
                       ELSE Append(data_points,
                                   (last'.command.params.item_name :>
                                        float(last'.command.params.value))
                                   @@ (TimestampKey :>
                                        isoformat(datetime(clock))))]_vars

\* C13 witness: "." refused while a session holding a point is active
C13_Witness ==
    /\ MeasurementDispatched
    /\ last.command.params.value = <<".">>
    /\ last.message = MsgInvalidNumber
    /\ current_session # None
    /\ Len(data_points) = 1

\* text is the start keyword, blanks, the operator keyword, blanks or none,
\* and the name N of characters that are not blanks
IsStartForm(text, N) ==
    /\ N # <<>>
    /\ \A k \in 1..Len(N) : N[k] \notin Whitespace
    /\ \E ws1 \in 1..Len(text) : \E ws2 \in 0..Len(text) :
          /\ Len(text) = Len(KeisokuKaishi) + ws1 + Len(Operator) + ws2 + Len(N)
          /\ SubSeq(text, 1, Len(KeisokuKaishi)) = KeisokuKaishi
          /\ \A k \in 1..ws1 : text[Len(KeisokuKaishi) + k] \in Whitespace
          /\ SubSeq(text, Len(KeisokuKaishi) + ws1 + 1,
                    Len(KeisokuKaishi) + ws1 + Len(Operator)) = Operator
          /\ \A k \in 1..ws2 :
                 text[Len(KeisokuKaishi) + ws1 + Len(Operator) + k] \in Whitespace
          /\ SubSeq(text, Len(text) - Len(N) + 1, Len(text)) = N

\* C14: parse of the start keyword, blanks, the operator keyword, optional
\* blanks and a name N without blanks is the command session/start with
\* operator_name = N.
C14_ParseStartCommand ==
    (last.op = "parse")
        => \A n \in 1..Len(last.text.str) :
              IsStartForm(last.text.str,
                          SubSeq(last.text.str, Len(last.text.str) - n + 1,
                                 Len(last.text.str)))
                  => last.call_ret =
                         ParsedCommand("session", "start",
                             [operator_name |->
                                 SubSeq(last.text.str,
                                        Len(last.text.str) - n + 1,
                                        Len(last.text.str))])

\* C14 witness: the text of the example, parsed
C14_Witness ==
    /\ last.op = "parse"
    /\ last.text = Str(KeisokuKaishi \o <<" ">> \o Operator \o <<" ">> \o Yamada)
    /\ last.call_ret # None
    /\ last.call_ret.params.operator_name = Yamada

\* the text begins with a string of the language of the pattern, from
\* element i and position pos on
RECURSIVE Accepts(_, _, _, _)
Accepts(pattern, i, text, pos) ==
    IF i > Len(pattern) THEN TRUE
    ELSE IF "lit" \in DOMAIN pattern[i]
    THEN /\ pos + Len(pattern[i].lit) - 1 <= Len(text)
         /\ SubSeq(text, pos, pos + Len(pattern[i].lit) - 1) = pattern[i].lit
         /\ Accepts(pattern, i + 1, text, pos + Len(pattern[i].lit))
    ELSE \E n \in pattern[i].min..(Len(text) - pos + 1) :
            /\ \A k \in pos..(pos + n - 1) : InClass(text[k], pattern[i].class)
            /\ Accepts(pattern, i + 1, text, pos + n)

\* some declared alternative matches at the beginning of the text
MatchesSome(text) ==
    \E patterns \in {session_patterns, vehicle_patterns, test_patterns,
                     measurement_patterns, note_patterns} :
        \E i \in 1..Len(patterns) : Accepts(patterns[i].pattern, 1, text, 1)

\* C15: for a text that no declared alternative matches, parse returns no
\* command without raising and handle_command returns the not-recognised
\* message, leaving the staging and the manager as they were.
C15_NoMatchNotRecognized ==
    [][(CallStep /\ last'.op = "handle_command" /\ last'.text # None
          /\ ~MatchesSome(last'.text.str))
        => /\ last'.command = None
           /\ last'.raised = NoExc
           /\ last'.message = MsgNotRecognized
           /\ last'.call = "none"
           /\ UNCHANGED <<manager_vars, staging_vars, created_ids,
                          conditions_dispatched>>]_vars

\* C15 witness: the greeting not recognised while a session is active and
\* a test is staged
C15_Witness ==
    /\ last.op = "handle_command"
    /\ last.text = Str(Konnichiwa)
    /\ last.message = MsgNotRecognized
    /\ current_session # None
    /\ temp_test_info # None

\* the step is an add_notes call that returned, made on an active session
NotesAdded ==
    /\ CallStep
    /\ last'.op = "add_notes"
    /\ last'.call_raised = NoExc
    /\ current_session # None

\* C16 as claimed: after the calls t1..tk on one session the notes are t1,
\* .., tk joined by single newlines: the first call sets the notes to its
\* text, every later call puts a newline and its text after them.
C16_NotesJoinedByNewline ==
    [][NotesAdded
        => current_session'.notes =
               IF current_session.notes = None THEN last'.text
               ELSE Str(current_session.notes.str \o <<"\n">>
                            \o last'.text.str)]_vars

\* C16 amended: a call made while the notes are absent or empty sets the
\* notes to its text, every other call puts a newline and its text after
\* them: the notes are the texts from the first non-empty one on, joined by
\* single newlines in call order.
C16_NotesJoinedFromFirstNonEmpty ==
    [][NotesAdded
        => /\ current_session'.notes =
                  IF current_session.notes = None THEN last'.text
                  ELSE IF current_session.notes.str = <<>> THEN last'.text
                  ELSE Str(current_session.notes.str \o <<"\n">>
                               \o last'.text.str)
           /\ UNCHANGED <<data_points, metadata, files>>]_vars

\* C16 witness: "a" then "b" stored as "a\nb"
C16_Witness ==
    /\ last.op = "add_notes"
    /\ last.text = Str(<<"b">>)
    /\ current_session # None
    /\ current_session.notes = Str(<<"a", "\n", "b">>)

\* datetime a <= datetime b
DatetimeLeq(a, b) ==
    \/ a.second < b.second
    \/ a.second = b.second /\ a.microsecond <= b.microsecond

\* C17 as claimed: every bundle end_session returns has its end_time set
\* and end_time >= start_time, and holds no data point when none was added
\* since the start.
C17_EndTimeNotBeforeStartTime ==
    [][(CallStep /\ last'.call = "end_session" /\ last'.call_ret # None)
        => /\ last'.call_ret.session.end_time # None
           /\ DatetimeLeq(last'.call_ret.session.start_time,
                          last'.call_ret.session.end_time)
           /\ data_points = <<>> => last'.call_ret.data_points = <<>>]_vars

\* C18: end_session called while no session is active returns nothing
\* without raising, writes no document and leaves the manager as it was;
\* dispatched as session/end it gives the no-active-session message and no
\* error.
C18_EndWithoutSessionReturnsNothing ==
    [][(CallStep /\ last'.call = "end_session" /\ current_session = None)
        => /\ last'.call_raised = NoExc
           /\ last'.call_ret = None
           /\ UNCHANGED manager_vars
           /\ last'.raised = NoExc
           /\ last'.message = MsgNoActiveSession]_vars

\* C18 witness: session/end answered with the no-active-session message
\* after an earlier session was ended and written
C18_Witness ==
    /\ last.call = "end_session"
    /\ last.active_before = 0
    /\ last.message = MsgNoActiveSession
    /\ current_session = None
    /\ DOMAIN files # {}

\* the step is a load_session call for the id session_id
Loads(session_id) ==
    /\ CallStep
    /\ last'.op = "load_session"
    /\ last'.text = [session_id |-> session_id]

\* C19 as claimed: load_session given an id for which no document was ever
\* written fails (it returns no normal result) and changes neither the
\* active session nor the data points.
C19_LoadMissingFails ==
    [][\A session_id \in 1..MaxDataSessions \cup {StoredId} :
          (Loads(session_id) /\ session_id \notin DOMAIN files)
              => /\ last'.call_raised # NoExc
                 /\ UNCHANGED <<current_session, data_points>>]_vars

\* C19 amended: load_session given an id for which no document exists
\* returns nothing without raising and changes nothing.
C19_LoadMissingReturnsNothing ==
    [][\A session_id \in 1..MaxDataSessions \cup {StoredId} :
          (Loads(session_id) /\ session_id \notin DOMAIN files)
              => /\ last'.call_raised = NoExc
                 /\ last'.call_ret = None
                 /\ UNCHANGED manager_vars]_vars

\* C19 witness: nothing returned for an id without a document while a
\* session holding a point is active
C19_Witness ==
    /\ last.op = "load_session"
    /\ last.text.session_id \notin DOMAIN files
    /\ last.call_raised = NoExc
    /\ last.call_ret = None
    /\ current_session # None
    /\ Len(data_points) > 0

\* the document is no JSON, or lacks the session, its id, start time,
\* operator, vehicle or test (or a key of these), the data points or the
\* metadata
StructurallyInvalid(doc) ==
    \/ "json" \notin DOMAIN doc
    \/ \E key \in {"session", "data_points", "metadata"} :
          key \notin DOMAIN doc.json
    \/ /\ "session" \in DOMAIN doc.json
       /\ \/ \E key \in {"session_id", "start_time", "operator_name",
                         "vehicle_info", "test_info"} :
                key \notin DOMAIN doc.json.session
          \/ /\ "vehicle_info" \in DOMAIN doc.json.session
             /\ \E key \in {"vehicle_id", "vehicle_name", "vehicle_type"} :
                   key \notin DOMAIN doc.json.session.vehicle_info
          \/ /\ "test_info" \in DOMAIN doc.json.session
             /\ \E key \in {"test_id", "test_name", "test_type", "conditions"} :
                   key \notin DOMAIN doc.json.session.test_info

\* C20: load_session given an id whose document is structurally invalid
\* raises to the caller, returns no bundle, whole or partial, and leaves
\* the manager as it was.
C20_LoadInvalidRaises ==
    [][\A session_id \in 1..MaxDataSessions \cup {StoredId} :
          (Loads(session_id) /\ session_id \in DOMAIN files)
              => IF StructurallyInvalid(files[session_id])
                 THEN /\ last'.call_raised # NoExc
                      /\ last'.call_ret = None
                      /\ UNCHANGED manager_vars
                 ELSE UNCHANGED manager_vars]_vars

\* C20 witness: KeyError for a document without metadata, raised while a
\* session holding a point is active
C20_Witness ==
    /\ last.op = "load_session"
    /\ last.text.session_id \in DOMAIN files
    /\ IsJson(files[last.text.session_id])
    /\ "metadata" \notin DOMAIN files[last.text.session_id].json
    /\ last.call_raised = "KeyError"
    /\ current_session # None
    /\ Len(data_points) > 0

\* C21 as claimed: once a session/start has succeeded, nothing is staged in
\* the router any more: no pending vehicle, no pending test, no pending
\* condition.
C21_StagingGoneAfterStart ==
    (StartDispatched /\ last.message = MsgSessionStarted)
        => /\ temp_vehicle_info = None
           /\ temp_test_info = None
           /\ temp_test_conditions = EmptyDict

\* add_data_point returned normally for the i-th point it was given, a
\* document was written whole for the session active when the call tested
\* it, and the point is not in that document
Lost(i) ==
    /\ threads.returned[i].session_id \in DOMAIN files
    /\ IsJson(files[threads.returned[i].session_id])
    /\ \A j \in 1..Len(files[threads.returned[i].session_id].json.data_points) :
          json_load_point(
              files[threads.returned[i].session_id].json.data_points[j])
                  # threads.returned[i].point

\* C22: when every entry point runs inside one mutual-exclusion scope, every
\* point add_data_point returned normally for is in the document written for
\* its session; the witness is the other half, a point lost when
\* end_session and add_data_point interleave unsynchronized.
C22_NoPointLostUnderMutualExclusion ==
    threads.synchronized
        => \A i \in 1..Len(threads.returned) : ~Lost(i)

\* C22 witness: unsynchronized, add_data_point returned normally and its
\* point is absent from the document of its session
C22_Witness ==
    /\ ~threads.synchronized
    /\ \E i \in 1..Len(threads.returned) : Lost(i)

\* the controller's last call was op
ControllerCalled(op) == controller.last.op = op

\* C23: start_measurement called while a measurement is in progress returns
\* False and leaves the current measurement, is_measuring and everything
\* else of the controller as they were.
C23_StartWhileMeasuringRejected ==
    [][(ControllerCalled("start_measurement")' /\ controller' # controller
          /\ controller.self.is_measuring)
        => /\ controller'.last.ret = Bool(FALSE)
           /\ controller'.self = controller.self
           /\ controller'.self.is_measuring
           /\ controller'.dirs = controller.dirs
           /\ controller'.files = controller.files]_vars

\* C23 witness: a start with another condition refused while a measurement
\* holding a value is in progress
C23_Witness ==
    /\ ControllerCalled("start_measurement")
    /\ controller.last.ret = Bool(FALSE)
    /\ controller.self.is_measuring
    /\ controller.last.args[3] # controller.self.current_measurement.condition
    /\ Len(controller.self.current_measurement.data) > 0

\* the step is a call of the controller's method op
ControllerCall(op) == controller'.last.op = op /\ controller' # controller

\* C24: while no measurement is in progress, add_measurement_data returns
\* False and stop_measurement returns None, and neither changes the
\* controller nor creates a directory nor writes a file.
C24_NotMeasuringCallsRejected ==
    [][(~controller.self.is_measuring
          /\ (ControllerCall("add_measurement_data")
                \/ ControllerCall("stop_measurement")))
        => /\ ControllerCall("add_measurement_data")
                 => controller'.last.ret = Bool(FALSE)
           /\ ControllerCall("stop_measurement")
                 => controller'.last.ret = None
           /\ controller'.self = controller.self
           /\ controller'.dirs = controller.dirs
           /\ controller'.files = controller.files]_vars

\* C24 witness: a value refused after a measurement was stopped and written
C24_Witness ==
    /\ ControllerCalled("add_measurement_data")
    /\ controller.last.ret = Bool(FALSE)
    /\ ~controller.self.is_measuring
    /\ DOMAIN controller.files # {}

UpdateStateCall(action) ==
    /\ processor' # processor
    /\ processor'.last.op = "update_state"
    /\ processor'.last.args[1] = action

\* C26: update_state("start_measurement") returns False and leaves the
\* state as it was, is_measuring False, whenever the vehicle, the test and
\* the condition are not all selected; update_state("select_vehicle", p)
\* and update_state("select_test", p) with a non-empty p return True and
\* store p.
C26_UpdateStateChecksSelection ==
    [][/\ (UpdateStateCall("start_measurement")
             /\ ~(Truthy(processor.self.selected_vehicle)
                    /\ Truthy(processor.self.selected_test)
                    /\ Truthy(processor.self.selected_condition)))
          => /\ processor'.last.ret = Bool(FALSE)
             /\ processor'.self = processor.self
             /\ ~processor'.self.is_measuring
       /\ (UpdateStateCall("select_vehicle")
             /\ Truthy(processor'.last.args[2]))
          => /\ processor'.last.ret = Bool(TRUE)
             /\ processor'.self.selected_vehicle = processor'.last.args[2]
       /\ (UpdateStateCall("select_test")
             /\ Truthy(processor'.last.args[2]))
          => /\ processor'.last.ret = Bool(TRUE)
             /\ processor'.self.selected_test = processor'.last.args[2]]_vars

\* C26 witness: the start refused with a vehicle and a test selected and no
\* condition
C26_Witness ==
    /\ processor.last.op = "update_state"
    /\ processor.last.args[1] = "start_measurement"
    /\ processor.last.ret = Bool(FALSE)
    /\ processor.self.selected_vehicle = Str(<<"K", "5", "7">>)
    /\ processor.self.selected_test = Str(<<"T">>)
    /\ processor.self.selected_condition = None
    /\ ~processor.self.is_measuring

\* the commands of command_patterns that take a parameter
Parameterised == {i \in 1..Len(command_patterns) :
                     command_patterns[i].requires_param}

\* param is what follows an occurrence in text of a pattern of command i,
\* trimmed
FollowsPatternOf(i, text, param) ==
    \E j \in 1..Len(command_patterns[i].patterns) :
      \E at \in occurrences(text, command_patterns[i].patterns[j]) :
         param = Str(strip(SubSeq(
                     text,
                     at + Len(command_patterns[i].patterns[j]) + 1,
                     Len(text))))

\* C27 as claimed: for every text that contains the name or an alias of a
\* command that takes a parameter, process_command returns the action of
\* such a command the text names, with the text that follows an occurrence
\* of one of that command's own patterns, trimmed.
C27_ParameterBelongsToAction ==
    (/\ processor.last.op = "process_command"
     /\ \E i \in Parameterised :
          \E j \in 1..Len(command_patterns[i].patterns) :
             find(last.text.str, command_patterns[i].patterns[j]) # -1)
        => \E i \in Parameterised :
              /\ processor.last.ret[1] = command_patterns[i].action
              /\ FollowsPatternOf(i, strip(last.text.str),
                                  processor.last.ret[2])

\* every declared alternative with its type and action, in the order parse
\* tries them
Tagged(patterns, command_type) ==
    [i \in 1..Len(patterns) |->
        [command_type |-> command_type, action |-> patterns[i].action,
         pattern |-> patterns[i].pattern]]

Alternatives ==
    Tagged(session_patterns, "session") \o Tagged(vehicle_patterns, "vehicle")
        \o Tagged(test_patterns, "test")
        \o Tagged(measurement_patterns, "measurement")
        \o Tagged(note_patterns, "note")

\* the alternatives that match at the beginning of the text
Matching(text) ==
    {i \in 1..Len(Alternatives) : Accepts(Alternatives[i].pattern, 1, text, 1)}

\* the names of the groups of a pattern
Groups(pattern) ==
    {pattern[i].group : i \in {k \in 1..Len(pattern) :
                                  "group" \in DOMAIN pattern[k]}} \ {""}

\* chars is a piece of the text
PieceOf(chars, text) ==
    \E from \in 1..(Len(text) + 1), to \in 0..Len(text) :
        chars = SubSeq(text, from, to)

\* C28: parse returns the type and the action of the first alternative, in
\* the order session, vehicle, test, measurement, note and the declared order
\* within each, that matches at the beginning of the text, with the groups
\* of that alternative as pieces of the text, uncoerced; it returns no
\* command when none matches.
C28_FirstMatchWins ==
    (last.op = "parse")
        => IF Matching(last.text.str) = {}
           THEN last.call_ret = None
           ELSE /\ last.call_ret # None
                /\ last.call_ret.command_type =
                       Alternatives[Min(Matching(last.text.str))].command_type
                /\ last.call_ret.action =
                       Alternatives[Min(Matching(last.text.str))].action
                /\ DOMAIN last.call_ret.params =
                       Groups(Alternatives[Min(Matching(last.text.str))].pattern)
                /\ last.call_ret.params =
                       re_match(
                           Alternatives[Min(Matching(last.text.str))].pattern,
                           last.text.str).groupdict
                /\ \A g \in DOMAIN last.call_ret.params :
                      PieceOf(last.call_ret.params[g], last.text.str)

\* C28 witness: a measurement, of the fourth type tried, parsed with its
\* value as text
C28_Witness ==
    /\ last.op = "parse"
    /\ last.text = Str(Keisokuchi \o <<" ", "1", " ", "1">>)
    /\ last.call_ret # None
    /\ last.call_ret.command_type = "measurement"
    /\ last.call_ret.action = "add"
    /\ last.call_ret.params.value = <<"1">>

\* C29: when parse gives a command for a text, it gives a command of the
\* same type and action for that text followed by anything.
C29_PrefixMatching ==
    (last.op = "parse")
        => \A n \in 0..Len(last.text.str) :
              parse(SubSeq(last.text.str, 1, n)) # None
                  => /\ last.call_ret # None
                     /\ last.call_ret.command_type =
                            parse(SubSeq(last.text.str, 1, n)).command_type
                     /\ last.call_ret.action =
                            parse(SubSeq(last.text.str, 1, n)).action

\* C29 witness: the end keyword followed by more text, parsed as session/end
C29_Witness ==
    /\ last.op = "parse"
    /\ last.text = Str(KeisokuShuuryou \o <<" ", "1">> \o MemoTsuika)
    /\ last.call_ret = EndCommand

\* C30: a test/set_condition dispatched while a test is pending leaves that
\* test pending with its id, name and type, and writes the given value under
\* the given name in its conditions map, every other name keeping its
\* value.
C30_LateConditionMutatesPendingTest ==
    [][(CallStep /\ SetConditionDispatched' /\ temp_test_info # None)
        => /\ last'.message = MsgConditionSet
           /\ temp_test_info' # None
           /\ temp_test_info'.test_id = temp_test_info.test_id
           /\ temp_test_info'.test_name = temp_test_info.test_name
           /\ temp_test_info'.test_type = temp_test_info.test_type
           /\ DictOf(temp_test_info'.conditions, temp_test_conditions') =
                  DictSet(DictOf(temp_test_info.conditions,
                                 temp_test_conditions),
                          last'.command.params.condition_name,
                          last'.command.params.condition_value)
           /\ UNCHANGED temp_vehicle_info]_vars

\* C30 witness: a value set before the register, overwritten by one set
\* after it
C30_Witness ==
    /\ SetConditionDispatched
    /\ temp_test_info # None
    /\ conditions_dispatched = {<<"temp", "20">>}
    /\ DictOf(temp_test_info.conditions, temp_test_conditions)
           = ("temp" :> "30")

\* the last call was a vehicle or test command given to handle_command
RouterCommandDispatched ==
    /\ last.op = "handle_command"
    /\ last.command # None
    /\ last.command.command_type \in {"vehicle", "test"}

\* C31 as claimed: a vehicle/register, test/register or test/set_condition
\* dispatched while a session is active leaves the active session's
\* vehicle, its test and its test conditions as they were.
C31_RouterCommandsLeaveActiveSession ==
    [][(CallStep /\ RouterCommandDispatched' /\ current_session # None)
        => /\ current_session' # None
           /\ current_session'.vehicle_info = current_session.vehicle_info
           /\ current_session'.test_info = current_session.test_info
           /\ DictOf(current_session'.test_info.conditions,
                     temp_test_conditions') =
                  DictOf(current_session.test_info.conditions,
                         temp_test_conditions)]_vars

\* C32 as claimed: the record a measurement/add appends holds, under
\* "timestamp", the time of the add_data_point call, and under the item
\* name the value given, whatever the item name is.
C32_EveryPointStamped ==
    [][(CallStep /\ MeasurementDispatched' /\ last'.call = "add_data_point"
            /\ last'.call_raised = NoExc)
        => /\ Len(data_points') = Len(data_points) + 1
           /\ TimestampKey \in DOMAIN data_points'[Len(data_points')]
           /\ data_points'[Len(data_points')][TimestampKey] =
                  isoformat(datetime(clock))
           /\ data_points'[Len(data_points')][last'.command.params.item_name] =
                  float(last'.command.params.value)]_vars

\* C33: the manager lets go of a session S (for NoSession or for another
\* session) only in a call whose write succeeded and left S's document,
\* with S's points and metadata, under S's id; a call whose write fails, in
\* end_session or in the forced end of start_session, keeps S active with
\* its points and its metadata and makes no session.
C33_NoSessionDroppedUnpersisted ==
    [][(CallStep /\ current_session # None)
        => /\ Leaves
                => /\ last'.write = "ok"
                   /\ current_session.session_id \in DOMAIN files'
                   /\ IsJson(files'[current_session.session_id])
                   /\ json_load(files'[current_session.session_id]).session.session_id
                          = current_session.session_id
                   /\ json_load(files'[current_session.session_id]).data_points
                          = data_points
                   /\ json_load(files'[current_session.session_id]).metadata
                          = metadata
           /\ (last'.call \in {"end_session", "start_session"}
                   /\ last'.call_raised # NoExc)
                => /\ ActiveId(current_session') = ActiveId(current_session)
                   /\ data_points' = data_points
                   /\ metadata' = metadata
                   /\ uuid_count' = uuid_count
                   /\ created_ids' = created_ids]_vars

\* C33 witness: the forced end of start_session failed on a session holding
\* a point; the session is still the active one, with its point
C33_Witness ==
    /\ last.call = "start_session"
    /\ last.call_raised = "OSError"
    /\ last.active_before # 0
    /\ ActiveId(current_session) = last.active_before
    /\ Len(data_points) > 0
    /\ created_ids = <<last.active_before>>

\* C34 as claimed: once end_session has returned a bundle, the operation
\* that follows (a session/start or session/end, a vehicle/register, a
\* test/register, a test/set_condition) changes no field of that bundle,
\* which stays equal to the document written for it.
C34_ReturnedBundleSealed ==
    [][(last.call = "end_session" /\ last.call_ret # None)
        => \E B \in {last.call_ret} :
              /\ BundleValue(B)' = BundleValue(B)
              /\ B.session.session_id \in DOMAIN files'
              /\ files'[B.session.session_id] = json_dump(to_dict(B))']_vars

\* the last call was handle_command with a test/register command
RegisterTestDispatched ==
    /\ last.op = "handle_command"
    /\ last.command # None
    /\ last.command.command_type = "test"
    /\ last.command.action = "register"

\* C35 as claimed: a test/set_condition dispatched while a test is pending
\* leaves the router's staging conditions map as it was, and the test a
\* later test/register makes holds only conditions that were staged while
\* no test was pending.
C35_LateConditionBelongsToItsTest ==
    [][CallStep
        => /\ (SetConditionDispatched' /\ temp_test_info # None)
                => temp_test_conditions' = temp_test_conditions
           /\ (RegisterTestDispatched' /\ temp_test_info # None)
                => \A name \in DOMAIN DictOf(temp_test_info'.conditions,
                                             temp_test_conditions') :
                      <<name, DictOf(temp_test_info'.conditions,
                                     temp_test_conditions')[name]>>
                          \in conditions_dispatched']_vars

\* the literal keyword an alternative starts with
Keyword(i) == Alternatives[i].pattern[1].lit

\* C36: the declared alternatives exclude one another: every alternative
\* starts with a literal keyword, no keyword begins another, at most one
\* alternative matches at the beginning of a text, and parse returns the
\* command of that alternative: the result any order of the types, actions
\* and alternatives gives.
C36_AlternativesExclusive ==
    (last.op = "parse")
        => /\ \A i \in 1..Len(Alternatives) :
                 "lit" \in DOMAIN Alternatives[i].pattern[1]
           /\ \A i, j \in 1..Len(Alternatives) :
                 (i # j /\ Len(Keyword(i)) <= Len(Keyword(j)))
                     => SubSeq(Keyword(j), 1, Len(Keyword(i))) # Keyword(i)
           /\ Cardinality(Matching(last.text.str)) <= 1
           /\ \A i \in Matching(last.text.str) :
                 last.call_ret =
                     ParsedCommand(Alternatives[i].command_type,
                                   Alternatives[i].action,
                                   re_match(Alternatives[i].pattern,
                                            last.text.str).groupdict)
           /\ Matching(last.text.str) = {} => last.call_ret = None

\* C36 witness: a note that goes on with the end keyword, which the parser
\* tries first, parsed as the note
C36_Witness ==
    /\ last.op = "parse"
    /\ last.text = Str(MemoTsuika \o <<" ", "a", " ">> \o KeisokuShuuryou)
    /\ Matching(last.text.str) = {11}
    /\ last.call_ret # None
    /\ last.call_ret.command_type = "note"
    /\ last.call_ret.params.content = <<"a", " ">> \o KeisokuShuuryou

\* C37: whatever update_state calls have been made, selected_condition is
\* None and is_measuring is False, and an update_state("start_measurement")
\* has returned False.
C37_StartMeasurementNeverSucceeds ==
    /\ processor.self.selected_condition = None
    /\ ~processor.self.is_measuring
    /\ (processor.last.op = "update_state"
           /\ processor.last.args[1] = "start_measurement")
        => processor.last.ret = Bool(FALSE)

\* C37 witness: with a vehicle and a test selected, an action naming the
\* condition was accepted and the condition is still not selected
C37_Witness ==
    /\ processor.last.op = "update_state"
    /\ processor.last.args = <<"select_condition", Str(<<"K", "5", "7">>)>>
    /\ processor.last.ret = Bool(TRUE)
    /\ Truthy(processor.self.selected_vehicle)
    /\ Truthy(processor.self.selected_test)
    /\ processor.self.selected_condition = None

\* C38 as claimed: is_measuring is True exactly when current_measurement is
\* present, after any calls of start_measurement, add_measurement_data and
\* stop_measurement, those in which the directory or a file is refused
\* included.
C38_MeasuringIffMeasurementPresent ==
    controller.self.is_measuring
        <=> (controller.self.current_measurement # None)

====
